---------------------------- MODULE Spec2Model ----------------------------
(***************************************************************************)
(* Model of the pool allocator of src/memory_manager.c: a side table of    *)
(* segment descriptors (segments[], segment_head, segment_free_list), one  *)
(* backing buffer (memory_pool, pool_size) and one mutex (mem_lock), used  *)
(* by several threads through mem_init, mem_alloc, mem_free, mem_resize    *)
(* and mem_deinit.                                                         *)
(*                                                                         *)
(* Every public function is cut into steps at the points where another     *)
(* thread can observe or interfere: the reads of memory_pool made before   *)
(* the lock is taken, the critical section (one step from the lock to the  *)
(* unlock, enabled when mem_lock is free), and the return to the caller.   *)
(* The critical section of mem_init is two steps, cut between its write    *)
(* memory_pool = NULL and its write memory_pool = ptr, because the other   *)
(* functions read memory_pool without the lock; mem_lock is held between   *)
(* the two.                                                                *)
(***************************************************************************)
EXTENDS Integers, Sequences, FiniteSets, TLC

-----------------------------------------------------------------------------
(* Bounds of the model *)

\* largest capacity passed to mem_init
MaxCap == 4

\* iterations of each thread's loop in the fixed-size reuse scenario
Iterations == 2

\* the threads calling into the allocator
Threads == {1, 2}

\* largest size a caller requests; pools run from smaller to larger than that
MaxReq == 2

\* request sizes tried by callers
Sizes == 0 .. MaxReq

\* addresses the host may return from mmap
Bases == {16}

\* descriptors in the side table: the program's MAX_SEGMENTS is 65536 and
\* its pools go beyond that many bytes; the model scales both down, keeping
\* pools that need more descriptors than the table has
MAX_SEGMENTS == 3

-----------------------------------------------------------------------------
(* Program constants *)

\* the null pointer; also the "no descriptor" link of the segment lists
NULL == 0

\* size_t arithmetic wraps; the model's word is 2^16, far above any address
WordMod == 2 ^ 16

\* (size_t)((char *)ptr - (char *)memory_pool)
PtrDiff(ptr, base) == (ptr - base) % WordMod

-----------------------------------------------------------------------------
VARIABLES
    memory_pool,        \* base address of the pool, NULL when there is none
    pool_size,          \* its capacity
    segments,           \* the descriptor table: [1..MAX_SEGMENTS -> segment_t]
    segment_head,       \* first descriptor of the ledger (address order)
    segment_free_list,  \* first unused descriptor
    pool_bytes,         \* contents of the mapped buffer, by offset
    mem_lock,           \* 0 when free, else the thread that holds it
    pc,                 \* where each thread is
    call,               \* the public function each thread called
    ctx,                \* which caller a running mem_alloc/mem_free returns to
    a_size,             \* mem_alloc: size
    f_ptr,              \* mem_free: ptr
    r_ptr,              \* mem_resize: ptr
    r_size,             \* mem_resize: size
    old_size,           \* mem_resize: old_size
    new_ptr,            \* mem_resize: new_ptr / value returned by the inner mem_alloc
    i_size,             \* mem_init: size
    ret,                \* value the call returns
    held,               \* per thread: the allocations it was handed and has not released
    iter,               \* per thread: loop iterations completed (scenario threads)
    start,              \* the allocator state the threads started from
    list_head,          \* linked list: the caller's Node* head
    list_lock,          \* linked_list.c: 0 when free, else the thread that holds it
    lpc,                \* where each thread is in its list function
    lcall,              \* the list function each thread called
    new_node,           \* list_insert...: new_node
    temp,               \* list_delete: temp, the node to free
    lret,               \* value the list function returns
    l_before            \* per thread: list and ledger when it took list_lock

shared == <<memory_pool, pool_size, segments, segment_head, segment_free_list>>
locals == <<a_size, f_ptr, r_ptr, r_size, old_size, new_ptr, i_size>>
lvars == <<list_head, list_lock, lpc, lcall, new_node, temp, lret, l_before>>
vars == <<memory_pool, pool_size, segments, segment_head, segment_free_list,
          pool_bytes, mem_lock, pc, call, ctx, a_size, f_ptr, r_ptr, r_size,
          old_size, new_ptr, i_size, ret, held, iter, start,
          list_head, list_lock, lpc, lcall, new_node, temp, lret, l_before>>

-----------------------------------------------------------------------------
(* The descriptor table *)

\* typedef struct segment { offset; size; free; next } segment_t; a static
\* array is zero-initialised
segment_t(o, s, f, n) == [offset |-> o, size |-> s, free |-> f, next |-> n]

ZeroSegments == [i \in 1 .. MAX_SEGMENTS |-> segment_t(0, 0, 0, NULL)]

\* reset_segments: thread all descriptors onto the free list, clear the ledger
reset_segments ==
    [i \in 1 .. MAX_SEGMENTS |->
        segment_t(0, 0, 0, IF i < MAX_SEGMENTS THEN i + 1 ELSE NULL)]

\* acquire_segment: pop the free list and clear the node; the result is the
\* node taken (NULL if none), the new table and the new free list
acquire_segment(segs, fl) ==
    IF fl = NULL
    THEN [s |-> NULL, segs |-> segs, fl |-> fl]
    ELSE [s |-> fl,
          segs |-> [segs EXCEPT ![fl] = segment_t(0, 0, 0, NULL)],
          fl |-> segs[fl].next]

\* release_segment, wrongly dropping the node instead of pushing it
release_segment_leaking(segs, fl, s) == [segs |-> segs, fl |-> fl]

\* release_segment: push the node on the free list; its other fields stay
release_segment(segs, fl, s) ==
    IF s = NULL
    THEN [segs |-> segs, fl |-> fl]
    ELSE [segs |-> [segs EXCEPT ![s].next = fl], fl |-> s]

\* the descriptors reachable from h by next, in list order; fuel stops a walk
\* of a cyclic list
RECURSIVE WalkFrom(_, _, _)
WalkFrom(segs, h, fuel) ==
    IF h = NULL \/ fuel = 0
    THEN <<>>
    ELSE <<h>> \o WalkFrom(segs, segs[h].next, fuel - 1)

Walk(segs, h) == WalkFrom(segs, h, MAX_SEGMENTS + 1)

\* find_segment_by_offset, wrongly taking the node whose block holds offset
find_segment_holding(segs, head, offset) ==
    LET w == Walk(segs, head)
        hits == {k \in 1 .. Len(w) :
                    /\ segs[w[k]].offset <= offset
                    /\ offset < segs[w[k]].offset + segs[w[k]].size}
    IN  IF hits = {} THEN NULL
        ELSE w[CHOOSE k \in hits : \A j \in hits : k <= j]

\* find_segment_by_offset: the first ledger node starting at offset, or NULL
find_segment_by_offset(segs, head, offset) ==
    LET w == Walk(segs, head)
        hits == {k \in 1 .. Len(w) : segs[w[k]].offset = offset}
    IN  IF hits = {} THEN NULL
        ELSE w[CHOOSE k \in hits : \A j \in hits : k <= j]

\* coalesce_free_segments, wrongly advancing after a merge: a run of three
\* free blocks is left as two
RECURSIVE CoalesceFromSkipping(_, _, _)
CoalesceFromSkipping(segs, fl, cur) ==
    IF cur = NULL \/ segs[cur].next = NULL
    THEN [segs |-> segs, fl |-> fl]
    ELSE LET next == segs[cur].next IN
         IF segs[cur].free = 1 /\ segs[next].free = 1
            /\ segs[cur].offset + segs[cur].size = segs[next].offset
         THEN LET merged == [segs EXCEPT ![cur].size = @ + segs[next].size,
                                         ![cur].next = segs[next].next]
                  rel == release_segment(merged, fl, next)
              IN  CoalesceFromSkipping(rel.segs, rel.fl, rel.segs[cur].next)
         ELSE CoalesceFromSkipping(segs, fl, next)

\* coalesce_free_segments: one pass from the head; a free node absorbs its
\* free, adjacent successor and is examined again
RECURSIVE CoalesceFrom(_, _, _)
CoalesceFrom(segs, fl, cur) ==
    IF cur = NULL \/ segs[cur].next = NULL
    THEN [segs |-> segs, fl |-> fl]
    ELSE LET next == segs[cur].next IN
         IF segs[cur].free = 1 /\ segs[next].free = 1
            /\ segs[cur].offset + segs[cur].size = segs[next].offset
         THEN LET merged == [segs EXCEPT ![cur].size = @ + segs[next].size,
                                         ![cur].next = segs[next].next]
                  rel == release_segment(merged, fl, next)
              IN  CoalesceFrom(rel.segs, rel.fl, cur)
         ELSE CoalesceFrom(segs, fl, next)

\* coalesce_free_segments, wrongly without the test of cur->free: a used
\* node absorbs its free successor too
RECURSIVE CoalesceAnyCur(_, _, _)
CoalesceAnyCur(segs, fl, cur) ==
    IF cur = NULL \/ segs[cur].next = NULL
    THEN [segs |-> segs, fl |-> fl]
    ELSE LET next == segs[cur].next IN
         IF segs[next].free = 1
            /\ segs[cur].offset + segs[cur].size = segs[next].offset
         THEN LET merged == [segs EXCEPT ![cur].size = @ + segs[next].size,
                                         ![cur].next = segs[next].next]
                  rel == release_segment(merged, fl, next)
              IN  CoalesceAnyCur(rel.segs, rel.fl, cur)
         ELSE CoalesceAnyCur(segs, fl, next)

coalesce_any_cur(segs, head, fl) == CoalesceAnyCur(segs, fl, head)

\* coalesce_free_segments (lines 99-114)
coalesce_free_segments(segs, head, fl) == CoalesceFrom(segs, fl, head)


-----------------------------------------------------------------------------
(* The critical sections, as functions of the shared state *)

\* the ledger as the sequence of its blocks, in list order
Ledger(segs, head) ==
    LET w == Walk(segs, head)
    IN  [k \in 1 .. Len(w) |->
            [offset |-> segs[w[k]].offset, size |-> segs[w[k]].size,
             free |-> segs[w[k]].free]]

\* the scan of mem_alloc, wrongly taking the first free node whatever its size
FirstFree(segs, head, size) ==
    LET w == Walk(segs, head)
        fits == {k \in 1 .. Len(w) : segs[w[k]].free = 1}
    IN  IF fits = {} THEN NULL
        ELSE w[CHOOSE k \in fits : \A j \in fits : k <= j]

\* the scan of mem_alloc, wrongly taking the last node that fits
LastFit(segs, head, size) ==
    LET w == Walk(segs, head)
        fits == {k \in 1 .. Len(w) :
                    segs[w[k]].free = 1 /\ segs[w[k]].size >= size}
    IN  IF fits = {} THEN NULL
        ELSE w[CHOOSE k \in fits : \A j \in fits : k >= j]

\* the scan of mem_alloc: the first ledger node that is free and large
\* enough, or NULL
FirstFit(segs, head, size) ==
    LET w == Walk(segs, head)
        fits == {k \in 1 .. Len(w) :
                    segs[w[k]].free = 1 /\ segs[w[k]].size >= size}
    IN  IF fits = {} THEN NULL
        ELSE w[CHOOSE k \in fits : \A j \in fits : k <= j]

\* the split of mem_alloc, wrongly leaving the rest its old size
SplitKeepingSize(segs, fl, cur, size) ==
    LET acq == acquire_segment(segs, fl)
        rest == acq.s
    IN  [segs |-> [acq.segs EXCEPT
                     ![rest] = segment_t(segs[cur].offset + size,
                                         segs[cur].size,
                                         1, segs[cur].next),
                     ![cur] = segment_t(segs[cur].offset, size, 0, rest)],
         fl |-> acq.fl]

\* the split of mem_alloc (lines 211-219): cur keeps the first size bytes and
\* becomes used, a new free node after it takes the rest
Split(segs, fl, cur, size) ==
    LET acq == acquire_segment(segs, fl)
        rest == acq.s
    IN  [segs |-> [acq.segs EXCEPT
                     ![rest] = segment_t(segs[cur].offset + size,
                                         segs[cur].size - size,
                                         1, segs[cur].next),
                     ![cur] = segment_t(segs[cur].offset, size, 0, rest)],
         fl |-> acq.fl]

\* the exact-fit exit of mem_alloc, wrongly leaving the block free
TakeLeavingFree(segs, cur) == segs

\* the exact-fit exit of mem_alloc (line 200): the block becomes used
Take(segs, cur) == [segs EXCEPT ![cur].free = 0]

\* the descriptor-exhaustion exit of mem_alloc, wrongly marking the block
\* used before giving up
ExhaustedMarking(segs, fl, cur) ==
    [segs |-> [segs EXCEPT ![cur].free = 0], fl |-> fl, ret |-> NULL]

\* the descriptor-exhaustion exit of mem_alloc (lines 206-209)
Exhausted(segs, fl, cur) ==
    [segs |-> segs, fl |-> fl, ret |-> NULL]

\* mem_alloc between lock and unlock (lines 195-231); size is already >= 1
alloc_locked(segs, head, fl, base, size) ==
    LET cur == FirstFit(segs, head, size) IN
    IF cur = NULL
    THEN [segs |-> segs, fl |-> fl, ret |-> NULL]
    ELSE IF segs[cur].size = size
    THEN [segs |-> Take(segs, cur), fl |-> fl,
          ret |-> base + segs[cur].offset]
    ELSE IF fl = NULL
    THEN Exhausted(segs, fl, cur)
    ELSE LET sp == Split(segs, fl, cur, size)
         IN  [segs |-> sp.segs, fl |-> sp.fl, ret |-> base + segs[cur].offset]

\* mem_free between lock and unlock, wrongly without the coalescing pass
free_locked_no_coalesce(segs, head, fl, base, psize, ptr) ==
    LET offset == PtrDiff(ptr, base)
        seg == find_segment_by_offset(segs, head, offset)
    IN  IF offset >= psize \/ seg = NULL
        THEN [segs |-> segs, fl |-> fl]
        ELSE [segs |-> [segs EXCEPT ![seg].free = 1], fl |-> fl]

\* mem_free between lock and unlock (lines 241-257)
free_locked(segs, head, fl, base, psize, ptr) ==
    LET offset == PtrDiff(ptr, base)
        seg == find_segment_by_offset(segs, head, offset)
    IN  IF offset >= psize \/ seg = NULL
        THEN [segs |-> segs, fl |-> fl]
        ELSE coalesce_free_segments([segs EXCEPT ![seg].free = 1], head, fl)

\* the in-place growth of mem_resize, wrongly leaving the next block where
\* it started
GrowKeepingNext(segs, fl, seg, size) ==
    LET next == segs[seg].next
        total == segs[seg].size + segs[next].size
    IN  IF total = size
        THEN LET eaten == [segs EXCEPT ![seg].size = size,
                                       ![seg].next = segs[next].next]
                 rel == release_segment(eaten, fl, next)
             IN  [segs |-> rel.segs, fl |-> rel.fl]
        ELSE [segs |-> [segs EXCEPT
                          ![next].size = total - size,
                          ![seg].size = size],
              fl |-> fl]

\* the in-place growth of mem_resize (lines 329-341): seg takes the bytes it
\* needs from its free successor, which is released if nothing is left of it
GrowInPlace(segs, fl, seg, size) ==
    LET next == segs[seg].next
        total == segs[seg].size + segs[next].size
    IN  IF total = size
        THEN LET eaten == [segs EXCEPT ![seg].size = size,
                                       ![seg].next = segs[next].next]
                 rel == release_segment(eaten, fl, next)
             IN  [segs |-> rel.segs, fl |-> rel.fl]
        ELSE [segs |-> [segs EXCEPT
                          ![next].offset = segs[seg].offset + size,
                          ![next].size = total - size,
                          ![seg].size = size],
              fl |-> fl]

\* mem_resize under the lock, wrongly cutting the block at lines 302-306
\* with no descriptor for the rest
resize_locked_cutting(segs, head, fl, base, psize, ptr, size) ==
    LET offset == PtrDiff(ptr, base)
        seg == find_segment_by_offset(segs, head, offset)
        same == [segs |-> segs, fl |-> fl, old_size |-> 0]
    IN
    IF offset >= psize \/ seg = NULL
    THEN same @@ [how |-> "ret", ret |-> NULL]
    ELSE
    LET old == segs[seg].size
        next == segs[seg].next
    IN
    IF size <= old
    THEN \* 1) shrink or same size
         IF old - size > 0
         THEN IF fl = NULL
              THEN [segs |-> [segs EXCEPT ![seg].size = size], fl |-> fl,
                    old_size |-> old, how |-> "ret", ret |-> ptr]
              ELSE LET acq == acquire_segment(segs, fl)
                       rest == acq.s
                       cut == [acq.segs EXCEPT
                                 ![rest] = segment_t(segs[seg].offset + size,
                                                     old - size, 1, next),
                                 ![seg].size = size,
                                 ![seg].next = rest]
                       co == coalesce_free_segments(cut, head, acq.fl)
                   IN  [segs |-> co.segs, fl |-> co.fl, old_size |-> old,
                        how |-> "ret", ret |-> ptr]
         ELSE same @@ [how |-> "ret", ret |-> ptr]
    ELSE \* 2) grow into the next segment if it is free, adjacent, large enough
    IF /\ next # NULL
       /\ segs[next].free = 1
       /\ segs[seg].offset + segs[seg].size = segs[next].offset
       /\ segs[seg].size + segs[next].size >= size
    THEN LET g == GrowInPlace(segs, fl, seg, size)
         IN  [segs |-> g.segs, fl |-> g.fl, old_size |-> old,
              how |-> "ret", ret |-> ptr]
    ELSE \* 3) cannot grow in place
         [segs |-> segs, fl |-> fl, old_size |-> old, how |-> "move",
          ret |-> NULL]

\* mem_resize between lock and unlock (lines 283-345). how tells what follows:
\* "ret" (return ret) or "move" (lines 347-358, outside the lock)
resize_locked(segs, head, fl, base, psize, ptr, size) ==
    LET offset == PtrDiff(ptr, base)
        seg == find_segment_by_offset(segs, head, offset)
        same == [segs |-> segs, fl |-> fl, old_size |-> 0]
    IN
    IF offset >= psize \/ seg = NULL
    THEN same @@ [how |-> "ret", ret |-> NULL]
    ELSE
    LET old == segs[seg].size
        next == segs[seg].next
    IN
    IF size <= old
    THEN \* 1) shrink or same size
         IF old - size > 0
         THEN IF fl = NULL
              THEN same @@ [how |-> "ret", ret |-> ptr]
              ELSE LET acq == acquire_segment(segs, fl)
                       rest == acq.s
                       cut == [acq.segs EXCEPT
                                 ![rest] = segment_t(segs[seg].offset + size,
                                                     old - size, 1, next),
                                 ![seg].size = size,
                                 ![seg].next = rest]
                       co == coalesce_free_segments(cut, head, acq.fl)
                   IN  [segs |-> co.segs, fl |-> co.fl, old_size |-> old,
                        how |-> "ret", ret |-> ptr]
         ELSE same @@ [how |-> "ret", ret |-> ptr]
    ELSE \* 2) grow into the next segment if it is free, adjacent, large enough
    IF /\ next # NULL
       /\ segs[next].free = 1
       /\ segs[seg].offset + segs[seg].size = segs[next].offset
       /\ segs[seg].size + segs[next].size >= size
    THEN LET g == GrowInPlace(segs, fl, seg, size)
         IN  [segs |-> g.segs, fl |-> g.fl, old_size |-> old,
              how |-> "ret", ret |-> ptr]
    ELSE \* 3) cannot grow in place
         [segs |-> segs, fl |-> fl, old_size |-> old, how |-> "move",
          ret |-> NULL]

\* memcpy, wrongly leaving out the last byte
memcpy_short(bytes, base, dst, src, n) ==
    LET d == PtrDiff(dst, base)
        s == PtrDiff(src, base)
    IN  [i \in DOMAIN bytes |->
            IF i >= d /\ i < d + n - 1 THEN bytes[s + (i - d)] ELSE bytes[i]]

\* memcpy(new_ptr, ptr, copy_size) on the mapped buffer
memcpy(bytes, base, dst, src, n) ==
    LET d == PtrDiff(dst, base)
        s == PtrDiff(src, base)
    IN  [i \in DOMAIN bytes |->
            IF i >= d /\ i < d + n THEN bytes[s + (i - d)] ELSE bytes[i]]

\* both ranges of a memcpy lie in the mapped buffer
Mapped(bytes, base, p, n) ==
    \A i \in 0 .. (n - 1) : PtrDiff(p, base) + i \in DOMAIN bytes

\* the buffer mmap returns: size bytes, zero-filled
FreshBytes(size) == [i \in 0 .. (size - 1) |-> 0]

\* the state mem_init builds, wrongly leaving the first segment marked used
init_locked_not_free(size) ==
    LET acq == acquire_segment(reset_segments, 1)
        first == acq.s
    IN  [segs |-> [acq.segs EXCEPT ![first] = segment_t(0, size, 0, NULL)],
         head |-> first, fl |-> acq.fl]

\* the state mem_init builds after a successful mmap (lines 154-176):
\* one free segment covering the pool
init_locked(size) ==
    LET acq == acquire_segment(reset_segments, 1)
        first == acq.s
    IN  [segs |-> [acq.segs EXCEPT ![first] = segment_t(0, size, 1, NULL)],
         head |-> first, fl |-> acq.fl]

-----------------------------------------------------------------------------
(* Initial state: the static initialisers of memory_manager.c, no call made *)

NoCall == [op |-> "none", ptr |-> NULL, size |-> 0]

\* the five shared variables of memory_manager.c as one value
AllocatorState(segs, head, fl, base, psize) ==
    [segs |-> segs, head |-> head, fl |-> fl, base |-> base, psize |-> psize]

\* linked_list.c before any list function runs: the caller's head is NULL
\* (Node* head = NULL), list_lock is free
NoListCall == [op |-> "none", data |-> 0, node |-> NULL]

ListThreadsIdle ==
    /\ list_lock = 0
    /\ lpc = [t \in Threads |-> "idle"]
    /\ lcall = [t \in Threads |-> NoListCall]
    /\ new_node = [t \in Threads |-> NULL]
    /\ temp = [t \in Threads |-> NULL]
    /\ lret = [t \in Threads |-> NULL]
    /\ l_before = [t \in Threads |-> <<>>]

ListIdle == list_head = NULL /\ ListThreadsIdle

IdleThreads ==
    /\ pc = [t \in Threads |-> "idle"]
    /\ call = [t \in Threads |-> NoCall]
    /\ ctx = [t \in Threads |-> "top"]
    /\ a_size = [t \in Threads |-> 0]
    /\ f_ptr = [t \in Threads |-> NULL]
    /\ r_ptr = [t \in Threads |-> NULL]
    /\ r_size = [t \in Threads |-> 0]
    /\ old_size = [t \in Threads |-> 0]
    /\ new_ptr = [t \in Threads |-> NULL]
    /\ i_size = [t \in Threads |-> 0]
    /\ ret = [t \in Threads |-> NULL]
    /\ iter = [t \in Threads |-> 0]

Init ==
    /\ memory_pool = NULL
    /\ pool_size = 0
    /\ segments = ZeroSegments
    /\ segment_head = NULL
    /\ segment_free_list = NULL
    /\ pool_bytes = FreshBytes(0)
    /\ mem_lock = 0
    /\ IdleThreads
    /\ ListIdle
    /\ held = [t \in Threads |-> {}]
    /\ start = AllocatorState(segments, segment_head, segment_free_list,
                              memory_pool, pool_size)

-----------------------------------------------------------------------------
(* Calls made by the threads *)

\* the pointers a thread holds
Ptrs(t) == {h.ptr : h \in held[t]}

\* no mem_init or mem_deinit is running
NoLifecycleCall == \A u \in Threads : call[u].op \notin {"mem_init", "mem_deinit"}

\* no call is running
Quiescent == \A u \in Threads : pc[u] = "idle"

\* a thread with no call running makes a call: the call is recorded and the
\* first statements of the function run (the ...Entry definitions below)
Calls(t, op, ptr, size) ==
    /\ pc[t] = "idle"
    /\ call' = [call EXCEPT ![t] = [op |-> op, ptr |-> ptr, size |-> size]]

-----------------------------------------------------------------------------
(* mem_init (lines 120-179) *)

\* lines 121-125: a size of 0 returns at once, otherwise take the lock
InitEntry(t, size) ==
    /\ i_size' = [i_size EXCEPT ![t] = size]
    /\ IF size = 0
       THEN pc' = [pc EXCEPT ![t] = "done"]
       ELSE pc' = [pc EXCEPT ![t] = "init_lock"]
    /\ UNCHANGED <<shared, pool_bytes, mem_lock, ctx, a_size, f_ptr, r_ptr,
                   r_size, old_size, new_ptr, ret, held, iter, start, lvars>>

CallInit(t, size) == Calls(t, "mem_init", NULL, size) /\ InitEntry(t, size)

\* lines 125-136: take the lock and unmap a pool that is still live. The
\* pointers into it are dead from here on, whoever holds them.
InitLock(t) ==
    /\ pc[t] = "init_lock"
    /\ mem_lock = 0
    /\ mem_lock' = t
    /\ pc' = [pc EXCEPT ![t] = "init_map"]
    /\ IF memory_pool # NULL
       THEN /\ memory_pool' = NULL
            /\ pool_size' = 0
            /\ pool_bytes' = FreshBytes(0)
            /\ held' = [u \in Threads |-> {}]
       ELSE UNCHANGED <<memory_pool, pool_size, pool_bytes, held>>
    /\ UNCHANGED <<segments, segment_head, segment_free_list, call, ctx,
                   locals, ret, iter, start, lvars>>

\* lines 139-144, wrongly returning without the unlock
InitMapFailsKeepingLock(t) ==
    /\ pc[t] = "init_map"
    /\ pc' = [pc EXCEPT ![t] = "done"]
    /\ UNCHANGED <<shared, pool_bytes, mem_lock, call, ctx, locals, ret, held,
                   iter, start, lvars>>

\* lines 139-144: the host has no memory; unlock and return
InitMapFails(t) ==
    /\ pc[t] = "init_map"
    /\ mem_lock' = 0
    /\ pc' = [pc EXCEPT ![t] = "done"]
    /\ UNCHANGED <<shared, pool_bytes, call, ctx, locals, ret, held, iter, start, lvars>>

\* lines 139-178: the host maps size bytes at some address; build the ledger
InitMap(t, base) ==
    /\ pc[t] = "init_map"
    /\ LET st == init_locked(i_size[t]) IN
       /\ memory_pool' = base
       /\ pool_size' = i_size[t]
       /\ pool_bytes' = FreshBytes(i_size[t])
       /\ segments' = st.segs
       /\ segment_head' = st.head
       /\ segment_free_list' = st.fl
    /\ mem_lock' = 0
    /\ pc' = [pc EXCEPT ![t] = "done"]
    /\ UNCHANGED <<call, ctx, locals, ret, held, iter, start, lvars>>

-----------------------------------------------------------------------------
(* mem_deinit (lines 361-377) *)

CallDeinit(t) ==
    /\ Calls(t, "mem_deinit", NULL, 0)
    /\ pc' = [pc EXCEPT ![t] = "deinit_lock"]
    /\ UNCHANGED <<shared, pool_bytes, mem_lock, ctx, locals, ret, held, iter,
                   start, lvars>>

\* lines 362-376, wrongly leaving segment_head on the old ledger
DeinitBodyKeepingLedger(t) ==
    /\ pc[t] = "deinit_lock"
    /\ mem_lock = 0
    /\ IF memory_pool # NULL
       THEN /\ memory_pool' = NULL
            /\ pool_size' = 0
            /\ segment_free_list' = NULL
            /\ pool_bytes' = FreshBytes(0)
            /\ held' = [u \in Threads |-> {}]
       ELSE UNCHANGED <<memory_pool, pool_size, segment_free_list, pool_bytes,
                        held>>
    /\ pc' = [pc EXCEPT ![t] = "done"]
    /\ UNCHANGED <<segments, segment_head, mem_lock, call, ctx, locals, ret,
                   iter, start, lvars>>

\* lines 362-376: lock, drop the pool and both lists, unlock
DeinitBody(t) ==
    /\ pc[t] = "deinit_lock"
    /\ mem_lock = 0
    /\ IF memory_pool # NULL
       THEN /\ memory_pool' = NULL
            /\ pool_size' = 0
            /\ segment_head' = NULL
            /\ segment_free_list' = NULL
            /\ pool_bytes' = FreshBytes(0)
            /\ held' = [u \in Threads |-> {}]
       ELSE UNCHANGED <<memory_pool, pool_size, segment_head,
                        segment_free_list, pool_bytes, held>>
    /\ pc' = [pc EXCEPT ![t] = "done"]
    /\ UNCHANGED <<segments, mem_lock, call, ctx, locals, ret, iter, start, lvars>>

-----------------------------------------------------------------------------
(* mem_alloc (lines 181-232) *)

\* mem_alloc returns v to its caller cx: to the thread's own code, or into
\* mem_resize at line 265 (return it), line 274 (free the old block if the
\* allocation succeeded) or line 350 (copy, then free the old block)
AllocReturns(t, cx, v) ==
    CASE cx \in {"top", "resize_null"} ->
            /\ ret' = [ret EXCEPT ![t] = v]
            /\ pc' = [pc EXCEPT ![t] = "done"]
            /\ UNCHANGED <<new_ptr, f_ptr>>
      [] cx = "resize_zero" ->
            /\ new_ptr' = [new_ptr EXCEPT ![t] = v]
            /\ IF v # NULL
               THEN /\ f_ptr' = [f_ptr EXCEPT ![t] = r_ptr[t]]
                    /\ pc' = [pc EXCEPT ![t] = "free"]
                    /\ UNCHANGED ret
               ELSE /\ ret' = [ret EXCEPT ![t] = v]
                    /\ pc' = [pc EXCEPT ![t] = "done"]
                    /\ UNCHANGED f_ptr
      [] cx = "resize_move" ->
            /\ new_ptr' = [new_ptr EXCEPT ![t] = v]
            /\ IF v # NULL
               THEN /\ pc' = [pc EXCEPT ![t] = "resize_copy"]
                    /\ UNCHANGED ret
               ELSE /\ ret' = [ret EXCEPT ![t] = NULL]
                    /\ pc' = [pc EXCEPT ![t] = "done"]
            /\ UNCHANGED f_ptr

\* lines 182-191, entered from caller cx: the unlocked test of memory_pool,
\* and size 0 becomes 1
AllocEntry(t, cx, size) ==
    /\ ctx' = [ctx EXCEPT ![t] = cx]
    /\ IF memory_pool = NULL
       THEN /\ AllocReturns(t, cx, NULL)
            /\ a_size' = [a_size EXCEPT ![t] = size]
       ELSE /\ a_size' = [a_size EXCEPT ![t] = IF size = 0 THEN 1 ELSE size]
            /\ pc' = [pc EXCEPT ![t] = "alloc_lock"]
            /\ UNCHANGED <<ret, new_ptr, f_ptr>>
    /\ UNCHANGED <<shared, pool_bytes, mem_lock, old_size, i_size, held, iter,
                   start, lvars>>

CallAlloc(t, size) ==
    /\ Calls(t, "mem_alloc", NULL, size)
    /\ AllocEntry(t, "top", size)
    /\ UNCHANGED <<r_ptr, r_size>>

\* mem_alloc called from mem_resize, lines 274 and 350
AllocCheck(t) ==
    /\ pc[t] = "alloc"
    /\ AllocEntry(t, ctx[t], a_size[t])
    /\ UNCHANGED <<call, r_ptr, r_size>>

\* lines 193-231: lock, search, take or split, unlock, return
AllocBody(t) ==
    /\ pc[t] = "alloc_lock"
    /\ mem_lock = 0
    /\ LET r == alloc_locked(segments, segment_head, segment_free_list,
                             memory_pool, a_size[t])
       IN  /\ segments' = r.segs
           /\ segment_free_list' = r.fl
           /\ AllocReturns(t, ctx[t], r.ret)
    /\ UNCHANGED <<memory_pool, pool_size, segment_head, pool_bytes, mem_lock, call,
                   ctx, a_size, r_ptr, r_size, old_size, i_size, held, iter, start, lvars>>

-----------------------------------------------------------------------------
(* mem_free (lines 234-260) *)

\* mem_free returns: to the thread's own code, or into mem_resize, which
\* then returns new_ptr (lines 276-278 and 357-358)
FreeReturns(t) ==
    /\ pc' = [pc EXCEPT ![t] = "done"]
    /\ ret' = [ret EXCEPT ![t] = IF ctx[t] = "top" THEN NULL ELSE new_ptr[t]]

\* lines 235-237: the unlocked test of ptr and memory_pool
FreeEntry(t, ptr) ==
    /\ f_ptr' = [f_ptr EXCEPT ![t] = ptr]
    /\ IF ptr = NULL \/ memory_pool = NULL
       THEN FreeReturns(t)
       ELSE /\ pc' = [pc EXCEPT ![t] = "free_lock"]
            /\ UNCHANGED ret
    /\ UNCHANGED <<shared, pool_bytes, mem_lock, ctx, a_size, r_ptr, r_size,
                   old_size, new_ptr, i_size, held, iter, start, lvars>>

CallFree(t, ptr) == Calls(t, "mem_free", ptr, 0) /\ FreeEntry(t, ptr)

\* mem_free called from mem_resize
FreeCheck(t) ==
    /\ pc[t] = "free"
    /\ FreeEntry(t, f_ptr[t])
    /\ UNCHANGED call

\* lines 239-259: lock, find the segment, mark it free, coalesce, unlock
FreeBody(t) ==
    /\ pc[t] = "free_lock"
    /\ mem_lock = 0
    /\ LET r == free_locked(segments, segment_head, segment_free_list,
                            memory_pool, pool_size, f_ptr[t])
       IN  /\ segments' = r.segs
           /\ segment_free_list' = r.fl
    /\ FreeReturns(t)
    /\ UNCHANGED <<memory_pool, pool_size, segment_head, pool_bytes, mem_lock, call,
                   ctx, locals, held, iter, start, lvars>>

-----------------------------------------------------------------------------
(* mem_resize (lines 262-359) *)

\* lines 263-281 with a non-null ptr: the unlocked test of memory_pool and
\* the test of size
ResizeEntry(t, ptr, size) ==
    /\ IF memory_pool = NULL
       THEN \* line 269
            /\ ret' = [ret EXCEPT ![t] = NULL]
            /\ pc' = [pc EXCEPT ![t] = "done"]
            /\ UNCHANGED <<a_size, ctx>>
       ELSE IF size = 0
       THEN \* line 274: new_ptr = mem_alloc(1)
            /\ a_size' = [a_size EXCEPT ![t] = 1]
            /\ ctx' = [ctx EXCEPT ![t] = "resize_zero"]
            /\ pc' = [pc EXCEPT ![t] = "alloc"]
            /\ UNCHANGED ret
       ELSE /\ pc' = [pc EXCEPT ![t] = "resize_lock"]
            /\ UNCHANGED <<a_size, ctx, ret>>
    /\ UNCHANGED <<shared, pool_bytes, mem_lock, f_ptr, old_size, new_ptr,
                   i_size, held, iter, start, lvars>>

\* mem_resize(ptr, size), wrongly refusing a null ptr
CallResizeRefusingNull(t, ptr, size) ==
    /\ Calls(t, "mem_resize", ptr, size)
    /\ r_ptr' = [r_ptr EXCEPT ![t] = ptr]
    /\ r_size' = [r_size EXCEPT ![t] = size]
    /\ IF ptr = NULL
       THEN /\ pc' = [pc EXCEPT ![t] = "done"]
            /\ ret' = [ret EXCEPT ![t] = NULL]
            /\ UNCHANGED <<shared, pool_bytes, mem_lock, ctx, a_size, f_ptr,
                           old_size, new_ptr, i_size, held, iter, start, lvars>>
       ELSE ResizeEntry(t, ptr, size)

\* mem_resize(ptr, size): with a null ptr it is mem_alloc(size) (line 265)
CallResize(t, ptr, size) ==
    /\ Calls(t, "mem_resize", ptr, size)
    /\ r_ptr' = [r_ptr EXCEPT ![t] = ptr]
    /\ r_size' = [r_size EXCEPT ![t] = size]
    /\ IF ptr = NULL
       THEN AllocEntry(t, "resize_null", size)
       ELSE ResizeEntry(t, ptr, size)

\* lines 281-350, wrongly calling mem_alloc for a move with the lock held
ResizeBodyKeepingLock(t) ==
    /\ pc[t] = "resize_lock"
    /\ mem_lock = 0
    /\ LET r == resize_locked(segments, segment_head, segment_free_list,
                              memory_pool, pool_size, r_ptr[t], r_size[t])
       IN  /\ segments' = r.segs
           /\ segment_free_list' = r.fl
           /\ IF r.how = "ret"
              THEN /\ ret' = [ret EXCEPT ![t] = r.ret]
                   /\ pc' = [pc EXCEPT ![t] = "done"]
                   /\ UNCHANGED <<old_size, a_size, ctx, mem_lock>>
              ELSE /\ old_size' = [old_size EXCEPT ![t] = r.old_size]
                   /\ a_size' = [a_size EXCEPT ![t] = r_size[t]]
                   /\ ctx' = [ctx EXCEPT ![t] = "resize_move"]
                   /\ pc' = [pc EXCEPT ![t] = "alloc"]
                   /\ mem_lock' = t
                   /\ UNCHANGED ret
    /\ UNCHANGED <<memory_pool, pool_size, segment_head, pool_bytes, call,
                   f_ptr, r_ptr, r_size, new_ptr, i_size, held, iter, start, lvars>>

\* lines 281-350: lock, shrink or grow in place, unlock and return; or
\* unlock and call mem_alloc(size) for a move
ResizeBody(t) ==
    /\ pc[t] = "resize_lock"
    /\ mem_lock = 0
    /\ LET r == resize_locked(segments, segment_head, segment_free_list,
                              memory_pool, pool_size, r_ptr[t], r_size[t])
       IN  /\ segments' = r.segs
           /\ segment_free_list' = r.fl
           /\ IF r.how = "ret"
              THEN /\ ret' = [ret EXCEPT ![t] = r.ret]
                   /\ pc' = [pc EXCEPT ![t] = "done"]
                   /\ UNCHANGED <<old_size, a_size, ctx>>
              ELSE /\ old_size' = [old_size EXCEPT ![t] = r.old_size]
                   /\ a_size' = [a_size EXCEPT ![t] = r_size[t]]
                   /\ ctx' = [ctx EXCEPT ![t] = "resize_move"]
                   /\ pc' = [pc EXCEPT ![t] = "alloc"]
                   /\ UNCHANGED ret
    /\ UNCHANGED <<memory_pool, pool_size, segment_head, pool_bytes, mem_lock, call,
                   f_ptr, r_ptr, r_size, new_ptr, i_size, held, iter, start, lvars>>

\* lines 355-357: copy the old contents, then call mem_free(ptr). A copy
\* that touches an unmapped address faults the process.
ResizeCopy(t) ==
    /\ pc[t] = "resize_copy"
    /\ LET copy_size == IF old_size[t] < r_size[t] THEN old_size[t] ELSE r_size[t]
       IN  IF /\ Mapped(pool_bytes, memory_pool, new_ptr[t], copy_size)
              /\ Mapped(pool_bytes, memory_pool, r_ptr[t], copy_size)
           THEN /\ pool_bytes' = memcpy(pool_bytes, memory_pool, new_ptr[t],
                                        r_ptr[t], copy_size)
                /\ f_ptr' = [f_ptr EXCEPT ![t] = r_ptr[t]]
                /\ pc' = [pc EXCEPT ![t] = "free"]
           ELSE /\ pc' = [u \in Threads |-> "fault"]
                /\ UNCHANGED <<pool_bytes, f_ptr>>
    /\ UNCHANGED <<shared, mem_lock, call, ctx, a_size, r_ptr, r_size,
                   old_size, new_ptr, i_size, ret, held, iter, start, lvars>>

-----------------------------------------------------------------------------
(* The return to the caller *)

\* the bytes reserved for a request: a request of 0 is served as one of 1
\* (lines 189-191 and 274)
Granted(size) == IF size = 0 THEN 1 ELSE size

\* what the thread holds once its call has returned: each allocation with
\* its address and the bytes reserved for it
HeldAfter(t) ==
    LET c == call[t]
        others == {h \in held[t] : h.ptr # c.ptr}
    IN  CASE c.op = "mem_alloc" ->
               IF ret[t] # NULL
               THEN held[t] \cup {[ptr |-> ret[t], size |-> Granted(c.size)]}
               ELSE held[t]
          [] c.op = "mem_free" -> others
          [] c.op = "mem_resize" ->
               IF ret[t] # NULL
               THEN others \cup {[ptr |-> ret[t], size |-> Granted(c.size)]}
               ELSE held[t]
          [] OTHER -> held[t]

\* the call is over: its frame is gone, the thread goes on at next
Returned(t, next) ==
    /\ pc[t] = "done"
    /\ held' = [held EXCEPT ![t] = HeldAfter(t)]
    /\ pc' = [pc EXCEPT ![t] = next]
    /\ call' = [call EXCEPT ![t] = NoCall]
    /\ ctx' = [ctx EXCEPT ![t] = "top"]
    /\ a_size' = [a_size EXCEPT ![t] = 0]
    /\ f_ptr' = [f_ptr EXCEPT ![t] = NULL]
    /\ r_ptr' = [r_ptr EXCEPT ![t] = NULL]
    /\ r_size' = [r_size EXCEPT ![t] = 0]
    /\ old_size' = [old_size EXCEPT ![t] = 0]
    /\ new_ptr' = [new_ptr EXCEPT ![t] = NULL]
    /\ i_size' = [i_size EXCEPT ![t] = 0]
    /\ ret' = [ret EXCEPT ![t] = NULL]
    /\ UNCHANGED <<shared, pool_bytes, mem_lock, start, lvars>>

\* the thread can make its next call
Return(t) == Returned(t, "idle") /\ UNCHANGED iter

\* the steps of the five functions, for one thread
Step(t) ==
    \/ InitLock(t)
    \/ InitMapFails(t)
    \/ \E base \in Bases : InitMap(t, base)
    \/ DeinitBody(t)
    \/ AllocCheck(t)
    \/ AllocBody(t)
    \/ FreeCheck(t)
    \/ FreeBody(t)
    \/ ResizeBody(t)
    \/ ResizeCopy(t)

-----------------------------------------------------------------------------
(* Spec: any calls by any thread. mem_init and mem_deinit are called while  *)
(* no other call runs, as the pointers of the old pool must no longer be    *)
(* used; mem_alloc, mem_free and mem_resize run concurrently, each thread   *)
(* passing NULL or a pointer it holds.                                      *)

Next ==
    \E t \in Threads :
        \/ Quiescent /\ \E size \in 0 .. MaxCap : CallInit(t, size)
        \/ Quiescent /\ CallDeinit(t)
        \/ NoLifecycleCall /\ \E size \in Sizes : CallAlloc(t, size)
        \/ NoLifecycleCall /\ \E ptr \in Ptrs(t) \cup {NULL} : CallFree(t, ptr)
        \/ NoLifecycleCall /\ \E ptr \in Ptrs(t) \cup {NULL}, size \in Sizes :
                                 CallResize(t, ptr, size)
        \/ Step(t)
        \/ Return(t)

Spec == Init /\ [][Next]_vars

-----------------------------------------------------------------------------
(* The calls run one at a time: each function from its first statement to  *)
(* its return with no step of another thread in between                    *)

\* mem_alloc(size) run alone on state st
SeqAlloc(st, size) ==
    IF st.base = NULL
    THEN [st |-> st, ret |-> NULL]
    ELSE LET r == alloc_locked(st.segs, st.head, st.fl, st.base, Granted(size))
         IN  [st |-> [st EXCEPT !.segs = r.segs, !.fl = r.fl], ret |-> r.ret]

\* mem_free(ptr) run alone on state st
SeqFree(st, ptr) ==
    IF ptr = NULL \/ st.base = NULL
    THEN st
    ELSE LET r == free_locked(st.segs, st.head, st.fl, st.base, st.psize, ptr)
         IN  [st EXCEPT !.segs = r.segs, !.fl = r.fl]

\* mem_resize(ptr, size) run alone on state st
SeqResize(st, ptr, size) ==
    IF ptr = NULL THEN SeqAlloc(st, size)
    ELSE IF st.base = NULL THEN [st |-> st, ret |-> NULL]
    ELSE IF size = 0
    THEN LET a == SeqAlloc(st, 1)
         IN  IF a.ret # NULL
             THEN [st |-> SeqFree(a.st, ptr), ret |-> a.ret]
             ELSE a
    ELSE LET r == resize_locked(st.segs, st.head, st.fl, st.base, st.psize,
                                ptr, size)
             locked == [st EXCEPT !.segs = r.segs, !.fl = r.fl]
         IN  IF r.how = "ret"
             THEN [st |-> locked, ret |-> r.ret]
             ELSE LET a == SeqAlloc(locked, size)
                  IN  IF a.ret # NULL
                      THEN [st |-> SeqFree(a.st, ptr), ret |-> a.ret]
                      ELSE a

\* the call c run alone on state st; mem_free returns nothing
SeqCall(st, c) ==
    CASE c.op = "mem_alloc" -> SeqAlloc(st, c.size)
      [] c.op = "mem_free" -> [st |-> SeqFree(st, c.ptr), ret |-> NULL]
      [] c.op = "mem_resize" -> SeqResize(st, c.ptr, c.size)
      [] OTHER -> [st |-> st, ret |-> NULL]

\* mem_init(size) run alone, the host mapping the pool at base
SeqInit(size, base) ==
    LET st == init_locked(size)
    IN  AllocatorState(st.segs, st.head, st.fl, base, size)

-----------------------------------------------------------------------------
(* SpecReuse: the threads of test_repeated_fit_reuse_multithread. The pool *)
(* holds one block of block_size bytes per thread; every thread repeats    *)
(* mem_alloc(block_size), mem_free(block) and gives up at the first NULL.  *)

NumThreads == Cardinality(Threads)

\* the state after mem_init(size) has returned, no other call made yet
PoolReady(size, base) ==
    /\ memory_pool = base
    /\ pool_size = size
    /\ segments = SeqInit(size, base).segs
    /\ segment_head = SeqInit(size, base).head
    /\ segment_free_list = SeqInit(size, base).fl
    /\ pool_bytes = FreshBytes(size)
    /\ mem_lock = 0
    /\ IdleThreads
    /\ ListIdle
    /\ start = SeqInit(size, base)

InitReuse ==
    \E k \in 1 .. (MaxCap \div NumThreads), base \in Bases :
        /\ PoolReady(NumThreads * k, base)
        /\ held = [t \in Threads |-> {}]

\* block_size = memory_size / num_threads
block_size == pool_size \div NumThreads

\* block = mem_alloc(size)
ReuseAlloc(t) ==
    /\ iter[t] < Iterations
    /\ held[t] = {}
    /\ CallAlloc(t, block_size)

\* mem_free(block)
ReuseFree(t) == \E ptr \in Ptrs(t) : CallFree(t, ptr)

\* a NULL from mem_alloc ends the thread (return (void *)1); a return from
\* mem_free ends an iteration
ReuseReturn(t) ==
    /\ Returned(t, IF call[t].op = "mem_alloc" /\ ret[t] = NULL
                   THEN "failed" ELSE "idle")
    /\ iter' = [iter EXCEPT ![t] = IF call[t].op = "mem_free" THEN @ + 1 ELSE @]

NextReuse ==
    \E t \in Threads :
        \/ ReuseAlloc(t)
        \/ ReuseFree(t)
        \/ AllocBody(t)
        \/ FreeBody(t)
        \/ ReuseReturn(t)

SpecReuse == InitReuse /\ [][NextReuse]_vars

-----------------------------------------------------------------------------
(* SpecOnce: every thread holds one block and makes one call, all of them  *)
(* concurrently; the threads then stay where their call returned.          *)

\* the pool after mem_init(MaxCap) and one mem_alloc by each thread, made
\* one after the other in the order given
RECURSIVE AfterAllocs(_, _, _)
AfterAllocs(st, order, sizes) ==
    IF order = <<>>
    THEN [st |-> st, got |-> <<>>]
    ELSE LET a == SeqAlloc(st, sizes[Head(order)])
             rest == AfterAllocs(a.st, Tail(order), sizes)
         IN  [st |-> rest.st,
              got |-> <<[t |-> Head(order), ptr |-> a.ret,
                         size |-> sizes[Head(order)]]>> \o rest.got]

\* the orders in which the threads can come
Orders ==
    {o \in [1 .. NumThreads -> Threads] :
        \A i, j \in 1 .. NumThreads : i # j => o[i] # o[j]}

InitOnce ==
    \E base \in Bases, order \in Orders, sizes \in [Threads -> 1 .. MaxReq] :
        LET a == AfterAllocs(SeqInit(MaxCap, base), order, sizes) IN
        /\ memory_pool = a.st.base
        /\ pool_size = a.st.psize
        /\ segments = a.st.segs
        /\ segment_head = a.st.head
        /\ segment_free_list = a.st.fl
        /\ pool_bytes = FreshBytes(MaxCap)
        /\ mem_lock = 0
        /\ IdleThreads
        /\ ListIdle
        /\ start = a.st
        /\ held = [t \in Threads |->
                     {[ptr |-> a.got[i].ptr, size |-> a.got[i].size] :
                        i \in {j \in 1 .. NumThreads :
                                 a.got[j].t = t /\ a.got[j].ptr # NULL}}]

NextOnce ==
    \E t \in Threads :
        \/ \E size \in Sizes : CallAlloc(t, size)
        \/ \E ptr \in Ptrs(t) : CallFree(t, ptr)
        \/ \E ptr \in Ptrs(t), size \in Sizes : CallResize(t, ptr, size)
        \/ AllocCheck(t)
        \/ AllocBody(t)
        \/ FreeCheck(t)
        \/ FreeBody(t)
        \/ ResizeBody(t)
        \/ ResizeCopy(t)

SpecOnce == InitOnce /\ [][NextOnce]_vars

-----------------------------------------------------------------------------
(* SpecFill: the threads only allocate, positive sizes, never asking for   *)
(* more than the pool holds in total; nothing is freed or resized.         *)

RECURSIVE SumOver(_, _)
SumOver(f, S) ==
    IF S = {} THEN 0
    ELSE LET x == CHOOSE y \in S : TRUE IN f[x] + SumOver(f, S \ {x})

\* the bytes of the blocks thread t holds
HeldBytes(t) == SumOver([a \in held[t] |-> a.size], held[t])

\* the bytes asked for so far: the blocks handed out and the calls under way
Requested ==
    SumOver([t \in Threads |->
                HeldBytes(t) + (IF pc[t] = "idle" THEN 0 ELSE call[t].size)],
            Threads)

InitFill ==
    \E base \in Bases :
        /\ PoolReady(MaxCap, base)
        /\ held = [t \in Threads |-> {}]

\* block = mem_alloc(size), the total asked for staying within the pool
FillAlloc(t) ==
    \E size \in 1 .. MaxReq :
        /\ Requested + size <= pool_size
        /\ CallAlloc(t, size)

\* the thread keeps the block; it stops at a NULL
FillReturn(t) ==
    /\ Returned(t, IF ret[t] = NULL THEN "failed" ELSE "idle")
    /\ UNCHANGED iter

NextFill ==
    \E t \in Threads :
        \/ FillAlloc(t)
        \/ AllocBody(t)
        \/ FillReturn(t)

SpecFill == InitFill /\ [][NextFill]_vars

-----------------------------------------------------------------------------
(* State seen by the properties *)

PoolLive == memory_pool # NULL

\* the ledger reachable from segment_head
LedgerNow == Ledger(segments, segment_head)

RECURSIVE SumSizes(_)
SumSizes(L) == IF L = <<>> THEN 0 ELSE Head(L).size + SumSizes(Tail(L))

RECURSIVE SumHeld(_)
SumHeld(A) ==
    IF A = {} THEN 0
    ELSE LET a == CHOOSE x \in A : TRUE IN a[2].size + SumHeld(A \ {a})

\* the blocks of L partition [0, cap): ascending, gap-free, starting at 0
Partitions(L, cap) ==
    /\ Len(L) >= 1
    /\ L[1].offset = 0
    /\ \A k \in 1 .. (Len(L) - 1) :
          /\ L[k].offset < L[k + 1].offset
          /\ L[k].offset + L[k].size = L[k + 1].offset
    /\ SumSizes(L) = cap

\* the allocations thread t owns: those it holds, the value a finished call
\* is handing it, and the new block of a mem_resize that has allocated it
\* and not yet freed the old one
Live(t) ==
    IF pc[t] = "done"
    THEN HeldAfter(t)
    ELSE held[t] \cup
         (IF /\ pc[t] \in {"resize_copy", "free", "free_lock"}
             /\ ctx[t] \in {"resize_zero", "resize_move"}
             /\ new_ptr[t] # NULL
          THEN {[ptr |-> new_ptr[t], size |-> Granted(r_size[t])]}
          ELSE {})

\* every live allocation, with its owner
AllLive == UNION {{<<t, a>> : a \in Live(t)} : t \in Threads}

-----------------------------------------------------------------------------
(* C1 *)

\* C1: whenever a pool is live and no thread holds mem_lock, the ledger is in
\* strictly ascending offset order, starts at offset 0, every block starts
\* where its predecessor ends, and the sizes sum to pool_size.
C1_Coverage ==
    (PoolLive /\ mem_lock = 0) => Partitions(LedgerNow, pool_size)

\* a ledger of three blocks, built by calls of both threads
C1_Witness ==
    /\ PoolLive /\ mem_lock = 0
    /\ Len(LedgerNow) = 3
    /\ \A t \in Threads : held[t] # {}

-----------------------------------------------------------------------------
(* C2 *)

\* C2: any two allocations live at the same time, of the same or of different
\* threads, have disjoint byte ranges, and each lies inside the pool; this
\* includes the new block of a mem_resize that has not yet freed the old one.
C2_Disjoint ==
    /\ \A x \in AllLive :
          /\ PoolLive
          /\ PtrDiff(x[2].ptr, memory_pool) + x[2].size <= pool_size
    /\ \A x, y \in AllLive :
          x # y => \/ x[2].ptr + x[2].size <= y[2].ptr
                   \/ y[2].ptr + y[2].size <= x[2].ptr

\* a moving mem_resize owns its old and its new block while the other thread
\* holds a block too
C2_Witness ==
    \E t, u \in Threads :
        /\ t # u
        /\ pc[t] = "resize_copy"
        /\ held[t] # {}
        /\ held[u] # {}

-----------------------------------------------------------------------------
(* C3 *)

\* the calls of the threads run one at a time in the order o, from state st:
\* the final state and the value each call returned
RECURSIVE Serial(_, _)
Serial(st, o) ==
    IF o = <<>>
    THEN [st |-> st, ret |-> [t \in {} |-> NULL]]
    ELSE LET r == SeqCall(st, call[Head(o)])
             rest == Serial(r.st, Tail(o))
         IN  [st |-> rest.st, ret |-> (Head(o) :> r.ret) @@ rest.ret]

\* the run is over: every thread has made its call and the call has returned
AllReturned == \A t \in Threads : pc[t] = "done"

\* C3: when concurrent calls of mem_alloc, mem_free and mem_resize have all
\* returned, their return values and the resulting ledger are those of the
\* same calls run one at a time, each atomically, in some order.
C3_Serializable ==
    AllReturned =>
        \E o \in Orders :
            LET s == Serial(start, o) IN
            /\ s.ret = ret
            /\ Ledger(s.st.segs, s.st.head) = LedgerNow

-----------------------------------------------------------------------------
(* C4 *)

\* C4: whenever a pool is live and no thread holds mem_lock, no two
\* consecutive ledger blocks are both free.
C4_NoAdjacentFree ==
    (PoolLive /\ mem_lock = 0) =>
        \A k \in 1 .. (Len(LedgerNow) - 1) :
            ~(LedgerNow[k].free = 1 /\ LedgerNow[k + 1].free = 1)

\* mem_free of a block in the middle of the pool has returned and the pool
\* is one free block again: its neighbours on both sides were merged
C4_Witness ==
    \E t \in Threads :
        /\ pc[t] = "done" /\ call[t].op = "mem_free"
        /\ PoolLive
        /\ PtrDiff(call[t].ptr, memory_pool) > 0
        /\ PtrDiff(call[t].ptr, memory_pool) + 1 < pool_size
        /\ LedgerNow = <<[offset |-> 0, size |-> pool_size, free |-> 1]>>

-----------------------------------------------------------------------------
(* C5 *)

\* every thread has finished its loop
ReuseFinished == \A t \in Threads : pc[t] = "idle" /\ iter[t] = Iterations

-----------------------------------------------------------------------------
(* C6 *)

\* C6: when a pool is live, no call is in progress and no allocation is
\* live, the ledger is one free block of size capacity, and mem_alloc of the
\* whole capacity would succeed.
C6_FullReclamation ==
    (PoolLive /\ \A t \in Threads : pc[t] = "idle" /\ held[t] = {}) =>
        /\ LedgerNow = <<[offset |-> 0, size |-> pool_size, free |-> 1]>>
        /\ alloc_locked(segments, segment_head, segment_free_list,
                        memory_pool, pool_size).ret # NULL

\* everything was freed again after blocks had been merged (a descriptor on
\* the free list still carries the free flag of the block it described)
C6_Witness ==
    /\ PoolLive
    /\ \A t \in Threads : pc[t] = "idle" /\ held[t] = {}
    /\ Cardinality({i \in 1 .. MAX_SEGMENTS : segments[i].free = 1}) = 3

-----------------------------------------------------------------------------
(* Returns of mem_alloc, as seen in one step *)

\* thread t leaves the critical section of mem_alloc in this step
AllocSearched(t) == pc[t] = "alloc_lock" /\ pc'[t] # "alloc_lock"

\* thread t returns from mem_alloc in this step without having taken the
\* lock (line 184): as the first statement of its call, or called from
\* mem_resize
AllocRefused(t) ==
    \/ /\ pc[t] = "idle" /\ pc'[t] = "done"
       /\ \/ call'[t].op = "mem_alloc"
          \/ call'[t].op = "mem_resize" /\ call'[t].ptr = NULL
    \/ pc[t] = "alloc" /\ pc'[t] \notin {"alloc", "alloc_lock"}

\* the value mem_alloc returns in a step that ends it: to the caller of the
\* thread, or to mem_resize, which stores it in new_ptr
AllocResult(t) ==
    IF ctx'[t] \in {"top", "resize_null"} THEN ret'[t] ELSE new_ptr'[t]

\* the free blocks of the ledger that can hold size bytes
Fitting(L, size) ==
    {k \in 1 .. Len(L) : L[k].free = 1 /\ L[k].size >= size}

-----------------------------------------------------------------------------
(* C7 *)

\* C7: whenever mem_alloc succeeds, the block it returns starts at the
\* offset of the lowest-offset free block whose size was at least the
\* request when the ledger was searched.
C7_FirstFit ==
    [][\A t \in Threads :
          (AllocSearched(t) /\ AllocResult(t) # NULL) =>
             LET fit == Fitting(LedgerNow, a_size[t]) IN
             /\ fit # {}
             /\ \E k \in fit :
                   /\ AllocResult(t) = memory_pool + LedgerNow[k].offset
                   /\ \A j \in fit : LedgerNow[k].offset <= LedgerNow[j].offset
      ]_vars

\* mem_alloc has returned a block that is not at the start of the pool, the
\* first block is still used and a free block lies behind the returned one:
\* a freed block between two others was reused
C7_Witness ==
    \E t \in Threads :
        /\ pc[t] = "done" /\ call[t].op = "mem_alloc"
        /\ ret[t] # NULL /\ ret[t] # memory_pool
        /\ Len(LedgerNow) = 3
        /\ LedgerNow[1].free = 0
        /\ LedgerNow[2].offset = PtrDiff(ret[t], memory_pool)
        /\ LedgerNow[3].free = 1

-----------------------------------------------------------------------------
(* C8 *)

\* C8: whenever mem_alloc returns NULL (no free block large enough, or no
\* pool), the ledger, the descriptor free list, the pool base and the pool
\* size are the same after the call as before it.
C8_FailedAllocChangesNothing ==
    [][\A t \in Threads :
          ((AllocSearched(t) \/ AllocRefused(t)) /\ AllocResult(t) = NULL) =>
             /\ shared' = shared
             /\ pool_bytes' = pool_bytes
      ]_vars

\* mem_alloc has returned NULL on a live pool whose ledger holds a used block
C8_Witness ==
    \E t \in Threads :
        /\ pc[t] = "done" /\ call[t].op = "mem_alloc" /\ ret[t] = NULL
        /\ PoolLive
        /\ \E k \in 1 .. Len(LedgerNow) : LedgerNow[k].free = 0

-----------------------------------------------------------------------------
(* C9 *)

\* C9: on a live pool mem_alloc(n), n > 0, returns NULL only if no free block
\* of size >= n exists when the ledger is searched under the lock.
C9_FailsOnlyForLackOfSpace ==
    [][\A t \in Threads :
          (AllocSearched(t) /\ PoolLive /\ AllocResult(t) = NULL) =>
             Fitting(LedgerNow, a_size[t]) = {}
      ]_vars

-----------------------------------------------------------------------------
(* C10 *)

\* the bytes reserved for the live allocations
LiveBytes == SumHeld(AllLive)

\* C10: mem_alloc returns non-NULL only if a free block of size >= n exists
\* when the ledger is searched, and the sizes of the live allocations never
\* sum to more than the capacity.
C10_NoOvercommit ==
    /\ [][\A t \in Threads :
             (AllocSearched(t) /\ AllocResult(t) # NULL) =>
                Fitting(LedgerNow, a_size[t]) # {}
         ]_vars
    /\ [](LiveBytes <= pool_size)

\* the live allocations fill the pool and a further mem_alloc has failed
C10_Witness ==
    \E t \in Threads :
        /\ pc[t] = "done" /\ call[t].op = "mem_alloc" /\ ret[t] = NULL
        /\ call[t].size > 0
        /\ PoolLive
        /\ LiveBytes = pool_size

-----------------------------------------------------------------------------
(* C11 *)

\* the used blocks of L lie back to back from offset 0, before any free block
Packed(L) ==
    \A k \in 1 .. Len(L) :
        L[k].free = 0 =>
            /\ \A j \in 1 .. (k - 1) : L[j].free = 0
            /\ L[k].offset = SumSizes(SubSeq(L, 1, k - 1))

\* C11: if the threads only call mem_alloc with positive sizes whose total is
\* at most the capacity of a fresh pool, every call returns non-NULL, the
\* blocks lie back to back from offset 0 with nothing between them, and a
\* total equal to the capacity leaves no free byte.
C11_DensePacking ==
    /\ \A t \in Threads :
          /\ pc[t] # "failed"
          /\ (pc[t] = "done" /\ call[t].op = "mem_alloc") => ret[t] # NULL
    /\ Packed(LedgerNow)
    /\ (Requested = pool_size /\ \A t \in Threads : pc[t] = "idle") =>
          \A k \in 1 .. Len(LedgerNow) : LedgerNow[k].free = 0

-----------------------------------------------------------------------------
(* C12 *)

\* the allocator state as the next call finds it
StateNow ==
    AllocatorState(segments, segment_head, segment_free_list, memory_pool,
                   pool_size)

\* C12: on a live pool two consecutive mem_alloc(0) calls return the same
\* non-NULL pointer, and the ledger is the same after each call as before it.
C12_ZeroSizeIdempotent ==
    (PoolLive /\ mem_lock = 0) =>
        LET first == SeqAlloc(StateNow, 0)
            second == SeqAlloc(first.st, 0)
        IN  /\ first.ret # NULL
            /\ second.ret = first.ret
            /\ Ledger(first.st.segs, first.st.head) = LedgerNow
            /\ Ledger(second.st.segs, second.st.head) = LedgerNow

-----------------------------------------------------------------------------
(* C13 *)

\* C13: whenever a pool exists, mem_alloc(0) returns non-NULL, whatever the
\* state of the pool and whatever the other threads are doing.
C13_ZeroSizeNeverFails ==
    \A t \in Threads :
        (/\ pc[t] = "done"
         /\ call[t].op = "mem_alloc" /\ call[t].size = 0
         /\ PoolLive) => ret[t] # NULL

-----------------------------------------------------------------------------------------------------------------------------------------------------
(* SpecWild: every thread holds one block; the threads free their blocks   *)
(* and also call mem_free with pointers that are no live block: NULL,      *)
(* addresses around and inside the pool, blocks freed before.              *)

\* the addresses from one below the pool to one past its end, and NULL
WildPtrs == {NULL} \cup ((memory_pool - 1) .. (memory_pool + pool_size + 1))

\* the addresses of the blocks owned by threads other than t
OthersPtrs(t) == {a[2].ptr : a \in {x \in AllLive : x[1] # t}}

\* the pool after mem_init(MaxCap) and one mem_alloc by each thread
InitWild ==
    \E base \in Bases, order \in Orders, sizes \in [Threads -> 1 .. MaxReq] :
        LET a == AfterAllocs(SeqInit(MaxCap, base), order, sizes) IN
        /\ memory_pool = a.st.base
        /\ pool_size = a.st.psize
        /\ segments = a.st.segs
        /\ segment_head = a.st.head
        /\ segment_free_list = a.st.fl
        /\ pool_bytes = FreshBytes(MaxCap)
        /\ mem_lock = 0
        /\ IdleThreads
        /\ ListIdle
        /\ start = a.st
        /\ held = [t \in Threads |->
                     {[ptr |-> a.got[i].ptr, size |-> a.got[i].size] :
                        i \in {j \in 1 .. NumThreads : a.got[j].t = t}}]

\* mem_free(block)
WildOwnFree(t) == \E ptr \in Ptrs(t) : CallFree(t, ptr)

\* mem_free(ptr), ptr no live block of any thread
WildFree(t) ==
    \E ptr \in WildPtrs \ (Ptrs(t) \cup OthersPtrs(t)) : CallFree(t, ptr)

NextWild ==
    \E t \in Threads :
        \/ WildOwnFree(t)
        \/ WildFree(t)
        \/ FreeBody(t)
        \/ Return(t)

SpecWild == InitWild /\ [][NextWild]_vars

-----------------------------------------------------------------------------
(* C14 *)

\* p lies below the pool or at or after its end
Outside(p) == p < memory_pool \/ p >= memory_pool + pool_size

\* p points into a block of the ledger, past its first byte
Interior(p) ==
    \E k \in 1 .. Len(LedgerNow) :
        /\ memory_pool + LedgerNow[k].offset < p
        /\ p < memory_pool + LedgerNow[k].offset + LedgerNow[k].size

\* p is the start of a block that is free
FreeStart(p) ==
    \E k \in 1 .. Len(LedgerNow) :
        /\ LedgerNow[k].free = 1
        /\ memory_pool + LedgerNow[k].offset = p

\* thread t ends a mem_free(p) in this step: at the unlocked test of line
\* 235 or at the unlock
FreeEnds(t, p) ==
    \/ /\ pc[t] = "idle" /\ pc'[t] = "done"
       /\ call'[t].op = "mem_free" /\ call'[t].ptr = p
    \/ /\ pc[t] = "free_lock" /\ pc'[t] # "free_lock"
       /\ f_ptr[t] = p

\* C14: mem_free(p) leaves the ledger and the descriptor free list unchanged
\* when p is NULL, outside the pool, inside a block, or the start of a block
\* that is already free.
C14_DefensiveFree ==
    [][\A t \in Threads : \A p \in WildPtrs :
          (/\ FreeEnds(t, p)
           /\ (p = NULL \/ Outside(p) \/ Interior(p) \/ FreeStart(p))) =>
             /\ segments' = segments
             /\ segment_head' = segment_head
             /\ segment_free_list' = segment_free_list
      ]_vars

\* two calls of mem_free have returned, one on a pointer into the interior
\* of a used block, one on the start of a free block which the caller does
\* not hold: a double free
C14_Witness ==
    \E t, u \in Threads :
        /\ t # u
        /\ pc[t] = "done" /\ call[t].op = "mem_free"
        /\ Interior(call[t].ptr)
        /\ \E k \in 1 .. Len(LedgerNow) :
              /\ LedgerNow[k].free = 0
              /\ memory_pool + LedgerNow[k].offset < call[t].ptr
              /\ call[t].ptr < memory_pool + LedgerNow[k].offset
                                 + LedgerNow[k].size
        /\ pc[u] = "done" /\ call[u].op = "mem_free"
        /\ call[u].ptr \notin Ptrs(u)
        /\ FreeStart(call[u].ptr)

-----------------------------------------------------------------------------
(* SpecBytes: every thread allocates a block, fills it with its own byte   *)
(* pattern, resizes it and frees it, again and again; the pattern of       *)
(* thread t is the byte t, fresh memory is 0.                              *)

\* the bytes of block h all hold v
Filled(h, v) ==
    \A i \in 0 .. (h.size - 1) :
        pool_bytes[PtrDiff(h.ptr, memory_pool) + i] = v

InitBytes ==
    \E base \in Bases :
        /\ PoolReady(MaxCap, base)
        /\ held = [t \in Threads |-> {}]

\* block = mem_alloc(size), one block per thread
BytesAlloc(t) ==
    /\ held[t] = {}
    /\ \E size \in Sizes : CallAlloc(t, size)

\* memset(block, thread_id, size)
Memset(t) ==
    /\ pc[t] = "idle"
    /\ \E h \in held[t] :
          /\ ~Filled(h, t)
          /\ pool_bytes' =
                [i \in DOMAIN pool_bytes |->
                    IF /\ i >= PtrDiff(h.ptr, memory_pool)
                       /\ i < PtrDiff(h.ptr, memory_pool) + h.size
                    THEN t ELSE pool_bytes[i]]
    /\ UNCHANGED <<shared, mem_lock, pc, call, ctx, locals, ret, held, iter,
                   start, lvars>>

\* block = mem_resize(block, size), the block filled before
BytesResize(t) ==
    \E h \in held[t], size \in Sizes :
        /\ Filled(h, t)
        /\ CallResize(t, h.ptr, size)

\* mem_free(block)
BytesFree(t) == \E ptr \in Ptrs(t) : CallFree(t, ptr)

NextBytes ==
    \E t \in Threads :
        \/ BytesAlloc(t)
        \/ Memset(t)
        \/ BytesResize(t)
        \/ BytesFree(t)
        \/ AllocCheck(t)
        \/ AllocBody(t)
        \/ FreeCheck(t)
        \/ FreeBody(t)
        \/ ResizeBody(t)
        \/ ResizeCopy(t)
        \/ Return(t)

SpecBytes == InitBytes /\ [][NextBytes]_vars

-----------------------------------------------------------------------------
(* C15 *)

\* the smaller of two sizes
Min(a, b) == IF a < b THEN a ELSE b

\* thread t has a mem_resize of its block h returned with a block
Resized(t, h) ==
    /\ pc[t] = "done"
    /\ call[t].op = "mem_resize"
    /\ h \in held[t] /\ h.ptr = call[t].ptr
    /\ ret[t] # NULL

\* C15: when mem_resize(p, n) returns a block p2, the first min(oldSize, n)
\* bytes at p2 are the bytes that were stored at p before the call, whether
\* the block shrank, grew in place or moved, other threads allocating,
\* freeing and writing their own blocks meanwhile.
C15_ResizeKeepsContent ==
    \A t \in Threads : \A h \in held[t] :
        Resized(t, h) =>
            Filled([ptr |-> ret[t], size |-> Min(h.size, call[t].size)], t)

\* a mem_resize has moved a filled block of thread t to an address that
\* another thread had written before
C15_Witness ==
    \E t \in Threads : \E h \in held[t] :
        /\ Resized(t, h)
        /\ ret[t] # h.ptr
        /\ call[t].size >= 2
        /\ \E i \in 0 .. (call[t].size - 1) :
              pool_bytes[PtrDiff(ret[t], memory_pool) + i] \notin {0, t}

-----------------------------------------------------------------------------
(* C16 *)

\* thread t returns NULL from a mem_resize of a block it holds in this step
ResizeFails(t) ==
    /\ pc[t] # "done" /\ pc'[t] = "done"
    /\ call'[t].op = "mem_resize"
    /\ call'[t].ptr \in Ptrs(t)
    /\ ret'[t] = NULL

\* thread t leaves the critical section of mem_resize for the fallback
\* mem_alloc in this step
ResizeFallsBack(t) == pc[t] = "resize_lock" /\ pc'[t] = "alloc"

\* block h of thread t is a used block of the ledger, at its address, with
\* at least its size, holding the thread's bytes
Intact(t, h) ==
    /\ \E k \in 1 .. Len(LedgerNow) :
          /\ LedgerNow[k].free = 0
          /\ memory_pool + LedgerNow[k].offset = h.ptr
          /\ LedgerNow[k].size >= h.size
    /\ Filled(h, t)

\* C16: when mem_resize(p, n) on a live allocation returns NULL, no step of
\* the call has changed the ledger, the descriptor lists or the pool's
\* bytes, and p's block is still used, where it was, with its contents.
C16_FailedResizeKeepsBlock ==
    /\ [][\A t \in Threads :
             (ResizeFails(t) \/ ResizeFallsBack(t)) =>
                /\ shared' = shared
                /\ pool_bytes' = pool_bytes
         ]_vars
    /\ [](\A t \in Threads : \A h \in held[t] :
             (/\ pc[t] = "done" /\ call[t].op = "mem_resize"
              /\ call[t].ptr = h.ptr /\ ret[t] = NULL) => Intact(t, h))

\* a growing mem_resize has returned NULL: the block behind p is used and
\* the fallback mem_alloc found no room
C16_Witness ==
    \E t \in Threads : \E h \in held[t] :
        /\ pc[t] = "done" /\ call[t].op = "mem_resize"
        /\ call[t].ptr = h.ptr /\ ret[t] = NULL
        /\ call[t].size > h.size
        /\ ctx[t] = "resize_move"

-----------------------------------------------------------------------------
(* C17 *)

\* no two neighbours of L are both free
NoAdjacentFree(L) ==
    \A k \in 1 .. (Len(L) - 1) : ~(L[k].free = 1 /\ L[k + 1].free = 1)

\* thread t runs the critical section of mem_resize in this step
ResizeSearched(t) == pc[t] = "resize_lock" /\ pc'[t] # "resize_lock"

\* block k of L is the used block at p, its successor is free and the two
\* together hold n bytes, n more than the block has
CanGrow(L, k, p, n) ==
    /\ L[k].free = 0
    /\ memory_pool + L[k].offset = p
    /\ n > L[k].size
    /\ k < Len(L)
    /\ L[k + 1].free = 1
    /\ L[k].size + L[k + 1].size >= n

\* L with block k grown to n bytes out of its successor
Grown(L, k, n) ==
    LET total == L[k].size + L[k + 1].size
    IN  [j \in 1 .. (IF total = n THEN Len(L) - 1 ELSE Len(L)) |->
            IF j < k THEN L[j]
            ELSE IF j = k THEN [L[k] EXCEPT !.size = n]
            ELSE IF total = n THEN L[j + 1]
            ELSE IF j = k + 1
            THEN [offset |-> L[k].offset + n, size |-> total - n, free |-> 1]
            ELSE L[j]]

\* C17: if the block after p's block is free and the two together hold n
\* bytes when a growing mem_resize(p, n) examines the ledger, the call
\* returns p, p's block has size n, the excess is a free block right after
\* it, no other block changes, and coverage and no-adjacent-free still hold.
C17_GrowInPlace ==
    [][\A t \in Threads : \A k \in 1 .. Len(LedgerNow) :
          (ResizeSearched(t) /\ CanGrow(LedgerNow, k, r_ptr[t], r_size[t])) =>
             /\ pc'[t] = "done"
             /\ ret'[t] = r_ptr[t]
             /\ LedgerNow' = Grown(LedgerNow, k, r_size[t])
             /\ Partitions(LedgerNow', pool_size)
             /\ NoAdjacentFree(LedgerNow')
      ]_vars

\* a mem_resize has grown a block in place, out of a larger free block of
\* which a part is left, with another used block in the ledger
C17_Witness ==
    \E t \in Threads : \E h \in held[t] : \E k \in 1 .. Len(LedgerNow) :
        /\ pc[t] = "done" /\ call[t].op = "mem_resize"
        /\ call[t].ptr = h.ptr /\ ret[t] = h.ptr
        /\ call[t].size > h.size
        /\ k < Len(LedgerNow)
        /\ memory_pool + LedgerNow[k].offset = h.ptr
        /\ LedgerNow[k].size = call[t].size
        /\ LedgerNow[k + 1].free = 1
        /\ \E j \in 1 .. Len(LedgerNow) : j # k /\ LedgerNow[j].free = 0

-----------------------------------------------------------------------------
(* C18 *)

\* block k of L is the used block at p and holds at least n bytes, n > 0
CanShrink(L, k, p, n) ==
    /\ L[k].free = 0
    /\ memory_pool + L[k].offset = p
    /\ 0 < n /\ n <= L[k].size

\* L with block k cut to n bytes, the tail free and one with a free successor
Shrunk(L, k, n) ==
    LET tail == L[k].size - n
        cut == [L[k] EXCEPT !.size = n]
        merges == k < Len(L) /\ L[k + 1].free = 1
    IN  IF tail = 0 THEN L
        ELSE IF merges
        THEN [j \in 1 .. Len(L) |->
                IF j = k THEN cut
                ELSE IF j = k + 1
                THEN [offset |-> L[k].offset + n,
                      size |-> tail + L[k + 1].size, free |-> 1]
                ELSE L[j]]
        ELSE [j \in 1 .. (Len(L) + 1) |->
                IF j < k THEN L[j]
                ELSE IF j = k THEN cut
                ELSE IF j = k + 1
                THEN [offset |-> L[k].offset + n, size |-> tail, free |-> 1]
                ELSE L[j - 1]]

\* C18: mem_resize(p, n) with 0 < n <= oldSize returns p and never fails;
\* the tail [offset+n, offset+oldSize) becomes free space, one single free
\* block with the block that followed p if that block was free.
C18_ShrinkInPlace ==
    [][\A t \in Threads : \A k \in 1 .. Len(LedgerNow) :
          (ResizeSearched(t) /\ CanShrink(LedgerNow, k, r_ptr[t], r_size[t]))
             => /\ pc'[t] = "done"
                /\ ret'[t] = r_ptr[t]
                /\ LedgerNow' = Shrunk(LedgerNow, k, r_size[t])
      ]_vars

-----------------------------------------------------------------------------
(* C19 *)

\* thread t returns from mem_resize(NULL, n) in this step
ResizeNullEnds(t) ==
    /\ pc[t] # "done" /\ pc'[t] = "done"
    /\ call'[t].op = "mem_resize"
    /\ call'[t].ptr = NULL

\* C19: mem_resize(NULL, n) returns what mem_alloc(n) returns from the same
\* allocator state and leaves the state mem_alloc(n) leaves, for every n,
\* 0 included.
C19_ResizeNullIsAlloc ==
    [][\A t \in Threads :
          ResizeNullEnds(t) =>
             LET a == SeqAlloc(StateNow, call'[t].size) IN
             /\ ret'[t] = a.ret
             /\ StateNow' = a.st
      ]_vars

\* mem_resize(NULL, 0) has returned a block on a pool where another block
\* is used
C19_Witness ==
    \E t \in Threads :
        /\ pc[t] = "done" /\ call[t].op = "mem_resize"
        /\ call[t].ptr = NULL /\ call[t].size = 0
        /\ ret[t] # NULL /\ ret[t] # memory_pool
        /\ \E k \in 1 .. Len(LedgerNow) :
              /\ LedgerNow[k].free = 0
              /\ memory_pool + LedgerNow[k].offset = ret[t]
              /\ LedgerNow[k].size = 1

-----------------------------------------------------------------------------
(* C20 *)

\* the addresses at which a used block starts
UsedStarts ==
    {memory_pool + LedgerNow[k].offset :
        k \in {j \in 1 .. Len(LedgerNow) : LedgerNow[j].free = 0}}

\* C20: in every state of a live pool, mem_resize(p, 0) on a used block p
\* returns non-NULL and leaves the ledger that mem_free(p) leaves: p's block
\* free and merged, no byte taken by the result, also when the pool is
\* otherwise full.
C20_ResizeZeroIsFree ==
    (PoolLive /\ mem_lock = 0) =>
        \A p \in UsedStarts :
            LET r == SeqResize(StateNow, p, 0)
                f == SeqFree(StateNow, p)
            IN  /\ r.ret # NULL
                /\ Ledger(r.st.segs, r.st.head) = Ledger(f.segs, f.head)

-----------------------------------------------------------------------------
(* C21 *)

\* C21: in every state of a live pool, mem_resize(p, n) with n > 0 and p not
\* the start of a used block (outside the pool, inside a block, or the start
\* of a free block) returns NULL and leaves the ledger unchanged.
C21_ResizeUnknownFails ==
    (PoolLive /\ mem_lock = 0) =>
        \A p \in WildPtrs \ (UsedStarts \cup {NULL}) : \A n \in 1 .. MaxReq :
            LET r == SeqResize(StateNow, p, n)
            IN  /\ r.ret = NULL
                /\ Ledger(r.st.segs, r.st.head) = LedgerNow

-----------------------------------------------------------------------------
(* SpecGrow: the threads of test_resize_multithread. Every thread runs     *)
(* thread_resize once: block = mem_alloc(initial_size), resized_block =    *)
(* mem_resize(block, 2 * initial_size), memset, mem_free(resized_block);   *)
(* it gives up at the first NULL. The pool has AmpleFactor times           *)
(* initial_size bytes per thread.                                          *)

\* pool bytes per thread and per byte of the initial block: the test gives
\* 1024 bytes per thread for blocks of 100
AmpleFactor == 1024 \div 100

InitGrow ==
    \E s \in 1 .. MaxReq, base \in Bases :
        /\ PoolReady(AmpleFactor * s * NumThreads, base)
        /\ held = [t \in Threads |-> {}]

\* the size the threads were started with
initial_size == pool_size \div (AmpleFactor * NumThreads)

\* block = mem_alloc(initial_size)
GrowAlloc(t) ==
    /\ iter[t] = 0
    /\ CallAlloc(t, initial_size)

\* resized_block = mem_resize(block, new_size)
GrowResize(t) ==
    /\ iter[t] = 1
    /\ \E ptr \in Ptrs(t) : CallResize(t, ptr, initial_size * 2)

\* memset(resized_block, ..., new_size)
GrowMemset(t) ==
    /\ iter[t] = 2
    /\ Memset(t)

\* mem_free(resized_block)
GrowFree(t) ==
    /\ iter[t] = 2
    /\ \E h \in held[t] : Filled(h, t) /\ CallFree(t, h.ptr)

\* a NULL from mem_alloc or mem_resize ends the thread (return (void *)1)
GrowReturn(t) ==
    /\ Returned(t, IF call[t].op # "mem_free" /\ ret[t] = NULL
                   THEN "failed" ELSE "idle")
    /\ iter' = [iter EXCEPT ![t] = @ + 1]

NextGrow ==
    \E t \in Threads :
        \/ GrowAlloc(t)
        \/ GrowResize(t)
        \/ GrowMemset(t)
        \/ GrowFree(t)
        \/ AllocCheck(t)
        \/ AllocBody(t)
        \/ FreeCheck(t)
        \/ FreeBody(t)
        \/ ResizeBody(t)
        \/ ResizeCopy(t)
        \/ GrowReturn(t)

SpecGrow == InitGrow /\ [][NextGrow]_vars

-----------------------------------------------------------------------------
(* C22 *)

\* every thread has run thread_resize to its end
GrowFinished == \A t \in Threads : pc[t] = "idle" /\ iter[t] = 3

\* C22: with AmpleFactor * initial_size bytes per thread, no mem_alloc and no
\* mem_resize of the threads returns NULL, whatever the interleaving, and
\* once all threads have finished the ledger is a single free block.
C22_GrowResizeSucceeds ==
    /\ \A t \in Threads :
          (pc[t] = "done" /\ call[t].op \in {"mem_alloc", "mem_resize"}) =>
             ret[t] # NULL
    /\ \A t \in Threads : pc[t] # "failed"
    /\ GrowFinished =>
          LedgerNow = <<[offset |-> 0, size |-> pool_size, free |-> 1]>>

-----------------------------------------------------------------------------
(* SpecAny: any calls by any thread at any time, mem_init and mem_deinit   *)
(* included, each thread passing NULL or a pointer it was handed; a thread *)
(* makes at most MaxCalls calls.                                           *)

\* calls made by each thread
MaxCalls == 2

\* the thread has calls left
CanCall(t) == iter[t] < MaxCalls

\* the call returns and is counted
AnyReturn(t) ==
    /\ Returned(t, "idle")
    /\ iter' = [iter EXCEPT ![t] = @ + 1]

NextAny ==
    \E t \in Threads :
        \/ CanCall(t) /\ \E size \in 0 .. MaxCap : CallInit(t, size)
        \/ CanCall(t) /\ CallDeinit(t)
        \/ CanCall(t) /\ \E size \in Sizes : CallAlloc(t, size)
        \/ CanCall(t) /\ \E ptr \in Ptrs(t) \cup {NULL} : CallFree(t, ptr)
        \/ CanCall(t) /\ \E ptr \in Ptrs(t) \cup {NULL}, size \in Sizes :
                            CallResize(t, ptr, size)
        \/ Step(t)
        \/ AnyReturn(t)

SpecAny == Init /\ [][NextAny]_vars

-----------------------------------------------------------------------------
(* C23 *)

\* thread t takes the step
Acts(t) == pc'[t] # pc[t]

\* the places where thread t is between pthread_mutex_lock and
\* pthread_mutex_unlock: the step begins by taking the lock, or the thread
\* took it in an earlier step (mem_init)
LockStages ==
    {"init_lock", "deinit_lock", "alloc_lock", "free_lock", "resize_lock"}

InCritical(t) ==
    \/ mem_lock = t
    \/ mem_lock = 0 /\ pc[t] \in LockStages

\* the step of thread t reads or writes memory_pool, pool_size, the ledger
\* or the descriptor free list: the test of memory_pool at line 182 (also
\* reached from lines 265, 274 and 350), at line 235 (after a non-null
\* ptr; also reached from lines 276 and 357) and at line 268, and the
\* bodies between lock and unlock
TouchesShared(t) ==
    \/ pc[t] = "idle" /\ call'[t].op \in {"mem_alloc", "mem_resize"}
    \/ pc[t] = "idle" /\ call'[t].op = "mem_free" /\ call'[t].ptr # NULL
    \/ pc[t] \in {"alloc", "free"}
    \/ pc[t] \in LockStages \cup {"init_map"}

\* C23: every step of mem_init, mem_alloc, mem_free, mem_resize and
\* mem_deinit that reads or writes the shared allocator state is made by a
\* thread holding mem_lock, and the shared state changes only in such a step.
C23_LockDiscipline ==
    [][/\ \A t \in Threads : (Acts(t) /\ TouchesShared(t)) => InCritical(t)
       /\ shared' # shared => \E t \in Threads : Acts(t) /\ InCritical(t)
      ]_vars

-----------------------------------------------------------------------------
(* FairAny: SpecAny under fair scheduling. A thread that can take a step   *)
(* of its call takes it, and a thread waiting in pthread_mutex_lock gets   *)
(* the lock if it is free again and again.                                 *)

FairAny == SpecAny /\ \A t \in Threads : SF_vars(Step(t))

-----------------------------------------------------------------------------
(* C24 *)

\* thread t is inside a call that has not reached its return
Running(t) == pc[t] \notin {"idle", "done", "fault"}

\* thread t waits in pthread_mutex_lock for a lock another thread holds
Blocked(t) == pc[t] \in LockStages /\ mem_lock \notin {0, t}

-----------------------------------------------------------------------------
(* C25 *)

\* thread t leaves the critical section of mem_init with a pool mapped;
\* the function returns from there without another access
InitSucceeds(t) ==
    /\ pc[t] = "init_map" /\ pc'[t] = "done"
    /\ memory_pool' # NULL

\* C25: when mem_init(c) ends with memory supplied by the host, the pool has
\* capacity c, exactly c bytes are mapped and the ledger is the single free
\* block [0, c), whatever pool and whatever blocks existed before the call.
C25_InitOneFreeBlock ==
    [][\A t \in Threads :
          InitSucceeds(t) =>
             LET c == call[t].size IN
             /\ pool_size' = c
             /\ DOMAIN pool_bytes' = 0 .. (c - 1)
             /\ LedgerNow' = <<[offset |-> 0, size |-> c, free |-> 1]>>
             /\ Len(Walk(segments', segment_free_list')) = MAX_SEGMENTS - 1
      ]_vars

\* mem_init has returned and the ledger is one free block, while a
\* mem_alloc of another thread has returned a block: a block of the pool
\* that mem_init destroyed
C25_Witness ==
    \E t, u \in Threads :
        /\ t # u
        /\ pc[t] = "done" /\ call[t].op = "mem_init" /\ PoolLive
        /\ LedgerNow = <<[offset |-> 0, size |-> call[t].size, free |-> 1]>>
        /\ pc[u] = "done" /\ call[u].op = "mem_alloc" /\ ret[u] # NULL

-----------------------------------------------------------------------------
(* C26 *)

\* C26: once mem_init(0) has returned, whatever pool was live before, every
\* mem_alloc(n) with n > 0 returns NULL and mem_alloc(0) returns non-NULL.
C26_ZeroCapacityPool ==
    \A t \in Threads :
        (pc[t] = "done" /\ call[t].op = "mem_init" /\ call[t].size = 0) =>
            /\ \A n \in 1 .. MaxReq : SeqAlloc(StateNow, n).ret = NULL
            /\ SeqAlloc(StateNow, 0).ret # NULL

-----------------------------------------------------------------------------
(* C27 *)

\* thread t runs the body of mem_deinit in this step
DeinitEnds(t) == pc[t] = "deinit_lock" /\ pc'[t] = "done"

\* the state mem_deinit leaves: no pool, no ledger, no descriptor free list
Deinited ==
    /\ memory_pool = NULL
    /\ pool_size = 0
    /\ segment_head = NULL
    /\ segment_free_list = NULL

\* the addresses a pool can have had
FormerPtrs == {base + o : base \in Bases, o \in 0 .. (MaxCap - 1)}

\* a step of mem_init is taken
InitActs == \E t \in Threads : Acts(t) /\ call'[t].op = "mem_init"

-----------------------------------------------------------------------------
(* C28 *)

\* the call whose step thread t takes
Operand(t) == IF pc[t] = "idle" THEN call'[t] ELSE call[t]

\* the step belongs to a call that may change the block at p: mem_free(p),
\* mem_resize(p, .), mem_init or mem_deinit
MayChange(p) ==
    \E t \in Threads :
        /\ Acts(t)
        /\ \/ Operand(t).op \in {"mem_init", "mem_deinit"}
           \/ /\ Operand(t).op \in {"mem_free", "mem_resize"}
              /\ Operand(t).ptr = p

\* the used block that starts at p, as the ledger lists it
UsedBlockAt(L, base, p) ==
    {L[k] : k \in {j \in 1 .. Len(L) :
                      L[j].free = 0 /\ base + L[j].offset = p}}

\* C28: a used block keeps its offset, its size and its used status through
\* every step of mem_alloc and of mem_free and mem_resize on other pointers,
\* by whichever thread; only mem_free(p), mem_resize(p, .), mem_init and
\* mem_deinit change the block at p.
C28_AddressStability ==
    [][\A p \in UsedStarts :
          ~MayChange(p) =>
             /\ memory_pool' = memory_pool
             /\ UsedBlockAt(LedgerNow', memory_pool', p)
                   = UsedBlockAt(LedgerNow, memory_pool, p)
      ]_vars

\* a thread holds a used block while another thread has freed the block
\* right after it, which is free now
C28_Witness ==
    \E t, u \in Threads : \E h \in held[t] :
        /\ t # u
        /\ UsedBlockAt(LedgerNow, memory_pool, h.ptr) # {}
        /\ pc[u] = "done" /\ call[u].op = "mem_free"
        /\ \E b \in UsedBlockAt(LedgerNow, memory_pool, h.ptr) :
              call[u].ptr = h.ptr + b.size
        /\ FreeStart(call[u].ptr)

-----------------------------------------------------------------------------
(* C29 *)

\* the alignment quanta considered: the powers of two from 2 to 8
Quanta == {2, 4, 8}

\* C29: there is a quantum such that every block a mem_alloc has returned
\* starts at an offset and has a size that are multiples of it.
C29_Aligned ==
    \E q \in Quanta :
        \A t \in Threads :
            (/\ pc[t] = "done" /\ call[t].op = "mem_alloc"
             /\ ret[t] # NULL /\ PoolLive) =>
                \A b \in UsedBlockAt(LedgerNow, memory_pool, ret[t]) :
                    /\ b.offset % q = 0
                    /\ b.size % q = 0

-----------------------------------------------------------------------------
(* C30 *)

\* n rounded up to a multiple of q
RoundUp(n, q) == ((n + q - 1) \div q) * q

\* ledger L after its block k was handed out whole
HandedOutWhole(L, k) == [L EXCEPT ![k].free = 0]

\* ledger L after its block k was split into a used block of n bytes and a
\* free remainder
SplitAt(L, k, n) ==
    SubSeq(L, 1, k - 1)
    \o <<[offset |-> L[k].offset, size |-> n, free |-> 0],
         [offset |-> L[k].offset + n, size |-> L[k].size - n, free |-> 1]>>
    \o SubSeq(L, k + 1, Len(L))

\* C30: there is a minimum viable block size, of at least an alignment
\* quantum, such that a successful mem_alloc hands out the selected free
\* block whole when its surplus over the aligned request is smaller than
\* that, and otherwise splits it into a used block of exactly the aligned
\* request and a free remainder; so mem_alloc creates no smaller free block.
C30_SplitPolicy ==
    [][\E m \in Quanta : \A t \in Threads :
          (AllocSearched(t) /\ AllocResult(t) # NULL) =>
             LET req == RoundUp(a_size[t], m)
                 fit == Fitting(LedgerNow, req)
             IN  /\ fit # {}
                 /\ LET k == CHOOSE i \in fit : \A j \in fit : i <= j
                    IN  IF LedgerNow[k].size - req < m
                        THEN LedgerNow' = HandedOutWhole(LedgerNow, k)
                        ELSE LedgerNow' = SplitAt(LedgerNow, k, req)
      ]_vars

-----------------------------------------------------------------------------
(* C31 *)

\* C31: mem_init never returns to its caller after the host has refused the
\* buffer: a mem_init that asked the host for memory returns only with a
\* pool.
C31_HostFailureFatal ==
    \A t \in Threads :
        (pc[t] = "done" /\ call[t].op = "mem_init" /\ call[t].size > 0) =>
            PoolLive

-----------------------------------------------------------------------------
(* C34 *)

\* the pointer a critical section of mem_alloc or of mem_resize hands out in
\* this step, NULL if thread t leaves no such section with a pointer
LockedResult(t) ==
    IF AllocSearched(t) THEN AllocResult(t)
    ELSE IF ResizeSearched(t) /\ pc'[t] = "done" THEN ret'[t]
    ELSE NULL

\* C34: every non-NULL pointer mem_alloc or mem_resize hands out is
\* memory_pool + offset for the pool live while the call holds the lock and
\* a block of its ledger that ends within pool_size, whatever mem_init
\* and mem_deinit calls run concurrently.
C34_PointersFromLivePool ==
    [][\A t \in Threads :
          LockedResult(t) # NULL =>
             /\ PoolLive
             /\ \E k \in 1 .. Len(LedgerNow') :
                   /\ memory_pool + LedgerNow'[k].offset = LockedResult(t)
                   /\ LedgerNow'[k].offset + LedgerNow'[k].size <= pool_size]_vars

-----------------------------------------------------------------------------
(* C35 *)

\* C35: whenever no thread holds mem_lock, the ledger is non-empty exactly
\* when a pool is live, and pool_size is 0 when no pool is live; after every
\* return of mem_init, its failure returns included, and of mem_deinit.
C35_PoolLedgerConsistent ==
    mem_lock = 0 =>
        /\ (LedgerNow # <<>>) <=> PoolLive
        /\ ~PoolLive => pool_size = 0

-----------------------------------------------------------------------------
(* C36 *)

\* the descriptors of a list, as a set
Nodes(w) == {w[k] : k \in 1 .. Len(w)}

\* C36: while a pool is live and no thread holds mem_lock, every one of the
\* MAX_SEGMENTS descriptors is on exactly one of the ledger list and the
\* descriptor free list: the lists are acyclic and disjoint and hold
\* MAX_SEGMENTS nodes together, whatever splits and merges have run.
C36_DescriptorConservation ==
    (PoolLive /\ mem_lock = 0) =>
        LET used == Walk(segments, segment_head)
            spare == Walk(segments, segment_free_list)
        IN  /\ Len(used) + Len(spare) = MAX_SEGMENTS
            /\ Nodes(used) \cap Nodes(spare) = {}
            /\ Nodes(used) \cup Nodes(spare) = 1 .. MAX_SEGMENTS

\* the ledger has been split, and the head of the free list is a descriptor
\* that a merge has released: it still carries the size of its block
C36_Witness ==
    /\ PoolLive /\ mem_lock = 0
    /\ Len(LedgerNow) >= 2
    /\ segment_free_list # NULL
    /\ segments[segment_free_list].size > 0

-----------------------------------------------------------------------------
(* C37 *)

\* the places where mem_resize is outside its critical section and calls
\* mem_alloc or mem_free, or copies between the two calls (lines 274-276
\* and 350-357)
ResizeCallsOut == {"alloc", "free", "resize_copy"}

\* C37: a thread whose call has returned does not hold mem_lock, a thread
\* about to lock mem_lock does not hold it already, and mem_resize does not
\* hold it where it calls mem_alloc and mem_free.
C37_MutexHygiene ==
    \A t \in Threads :
        /\ pc[t] \in {"done", "idle"} => mem_lock # t
        /\ pc[t] \in LockStages => mem_lock # t
        /\ pc[t] \in ResizeCallsOut => mem_lock # t

\* a mem_resize has left its critical section for the move and is about to
\* call mem_alloc while another thread, inside its second call, a mem_init,
\* holds the lock
C37_Witness ==
    \E t, u \in Threads :
        /\ pc[t] = "alloc" /\ ctx[t] = "resize_move"
        /\ mem_lock = u /\ u # t
        /\ iter[u] > 0

-----------------------------------------------------------------------------
(* C38 *)

\* thread t enters the critical section of mem_resize(p, n) in this step
\* with p the start of a used block larger than n, n > 0, and no descriptor
\* on the free list
ShrinkExhausted(t) ==
    /\ ResizeSearched(t)
    /\ r_size[t] > 0
    /\ \E b \in UsedBlockAt(LedgerNow, memory_pool, r_ptr[t]) :
          r_size[t] < b.size
    /\ segment_free_list = NULL

\* C38: a shrinking mem_resize(p, n) that finds the descriptor free list
\* empty returns p and changes nothing: the descriptors and the ledger are
\* as before, p's block is used with its old size, and the ledger still
\* partitions the pool.
C38_ShrinkExhausted ==
    [][\A t \in Threads :
          ShrinkExhausted(t) =>
             /\ pc'[t] = "done" /\ ret'[t] = r_ptr[t]
             /\ segments' = segments /\ LedgerNow' = LedgerNow
             /\ UsedBlockAt(LedgerNow', memory_pool, r_ptr[t]) =
                   UsedBlockAt(LedgerNow, memory_pool, r_ptr[t])
             /\ Partitions(LedgerNow', pool_size)]_vars

\* a mem_resize to fewer bytes has returned its pointer while all
\* descriptors are in the ledger; the block still has more bytes than asked
C38_Witness ==
    \E t \in Threads :
        /\ pc[t] = "done" /\ call[t].op = "mem_resize"
        /\ call[t].size > 0 /\ call[t].ptr # NULL
        /\ ret[t] = call[t].ptr
        /\ segment_free_list = NULL
        /\ \E b \in UsedBlockAt(LedgerNow, memory_pool, call[t].ptr) :
              call[t].size < b.size

-----------------------------------------------------------------------------
(* linked_list.c: the nodes live in blocks of the pool, list_lock serialises *)
(* the list functions, which call mem_alloc and mem_free while holding it   *)

\* sizeof(Node) in cells of the pool: data in the first, next in the second
SizeofNode == 2

\* node->data and node->next for the node at address p
data_at(bytes, base, p) == bytes[PtrDiff(p, base)]
next_at(bytes, base, p) == bytes[PtrDiff(p, base) + 1]

\* node->data = v; node->next = q
set_data(bytes, base, p, v) == [bytes EXCEPT ![PtrDiff(p, base)] = v]
set_next(bytes, base, p, q) == [bytes EXCEPT ![PtrDiff(p, base) + 1] = q]

\* the nodes met following next from p; fuel stops the walk of a cyclic list
RECURSIVE NodesFrom(_, _, _, _)
NodesFrom(bytes, base, p, fuel) ==
    IF p = NULL \/ fuel = 0
    THEN <<>>
    ELSE <<p>> \o NodesFrom(bytes, base, next_at(bytes, base, p), fuel - 1)

\* the walk from h over the buffer bytes: a pool of n cells has fewer than
\* n nodes, a longer walk goes round a cycle and never ends
Path(bytes, h) == NodesFrom(bytes, memory_pool, h, pool_size + 1)
Endless(path) == Len(path) > pool_size

\* the first of the places hits of a path, 0 if there is none
First(hits) ==
    IF hits = {} THEN 0 ELSE CHOOSE k \in hits : \A j \in hits : k <= j

\* the list as its caller sees it: the nodes from head with their values
ListNow ==
    LET path == Path(pool_bytes, list_head)
    IN  [k \in 1 .. Len(path) |->
            [node |-> path[k], data |-> data_at(pool_bytes, memory_pool, path[k])]]

\* the variables of memory_manager.c and of its callers' frames
mvars == <<shared, mem_lock, pc, call, ctx, locals, ret, held, start>>

InsertOps == {"list_insert", "list_insert_after", "list_insert_before"}

\* a thread calls a list function: list_insert_after and list_insert_before
\* return at once when given no node (lines 42, 61), the others go for
\* list_lock
ListCalls(t, op, node, data) ==
    /\ lpc[t] = "idle" /\ pc[t] = "idle"
    /\ lcall' = [lcall EXCEPT ![t] = [op |-> op, data |-> data, node |-> node]]
    /\ lpc' = [lpc EXCEPT ![t] =
                  IF op \in {"list_insert_after", "list_insert_before"}
                     /\ node = NULL
                  THEN "ldone" ELSE "lock"]
    /\ lret' = [lret EXCEPT ![t] = NULL]
    /\ UNCHANGED <<list_head, list_lock, new_node, temp, l_before, mvars,
                   pool_bytes, iter>>

\* what thread t finds when it takes list_lock
Snapshot == [list |-> ListNow, ledger |-> LedgerNow]

\* lines 16, 43, 62: pthread_mutex_lock(&list_lock) of the three inserts
ListInsertLock(t) ==
    /\ lpc[t] = "lock" /\ lcall[t].op \in InsertOps
    /\ list_lock = 0
    /\ list_lock' = t
    /\ l_before' = [l_before EXCEPT ![t] = Snapshot]
    /\ lpc' = [lpc EXCEPT ![t] = "alloc"]
    /\ UNCHANGED <<list_head, lcall, new_node, temp, lret, mvars, pool_bytes, iter>>

\* lines 18, 45, 64: mem_alloc(sizeof(Node)), list_lock held
ListCallsAlloc(t) ==
    /\ lpc[t] = "alloc"
    /\ CallAlloc(t, SizeofNode)

\* lines 18-23, wrongly returning without the unlock when mem_alloc failed
ListAllocGotKeepingLock(t) ==
    /\ lpc[t] = "alloc" /\ pc[t] = "done"
    /\ new_node' = [new_node EXCEPT ![t] = ret[t]]
    /\ lpc' = [lpc EXCEPT ![t] = IF ret[t] = NULL THEN "ldone" ELSE "link"]
    /\ UNCHANGED <<list_head, list_lock, lcall, temp, lret, l_before, mvars,
                   pool_bytes, iter>>

\* lines 18-23, 45-50, 64-69: new_node is what mem_alloc returned; with
\* NULL unlock and return
ListAllocGot(t) ==
    /\ lpc[t] = "alloc" /\ pc[t] = "done"
    /\ new_node' = [new_node EXCEPT ![t] = ret[t]]
    /\ IF ret[t] = NULL
       THEN /\ list_lock' = 0
            /\ lpc' = [lpc EXCEPT ![t] = "ldone"]
       ELSE /\ lpc' = [lpc EXCEPT ![t] = "link"]
            /\ UNCHANGED list_lock
    /\ UNCHANGED <<list_head, lcall, temp, lret, l_before, mvars, pool_bytes, iter>>

\* the frame of the mem_alloc or mem_free a list function called is gone
ListFrame(t) ==
    /\ lpc[t] \notin {"alloc", "free"}
    /\ Return(t)

\* the list function ends holding the lock: unlock and return, or, when the
\* loop never ended, stay in it
ListEnds(t, endless) ==
    IF endless
    THEN /\ lpc' = [lpc EXCEPT ![t] = "spin"]
         /\ list_lock' = t
    ELSE /\ lpc' = [lpc EXCEPT ![t] = "ldone"]
         /\ list_lock' = 0

\* list_insert, lines 25-35, on the buffer bytes of psize cells at base: fill
\* node n and make it the head of an empty list or the next of the last node
list_append(bytes, base, psize, h, n, data) ==
    LET b1 == set_next(set_data(bytes, base, n, data), base, n, NULL)
        path == NodesFrom(b1, base, h, psize + 1)
    IN  IF h = NULL
        THEN [bytes |-> b1, head |-> n, endless |-> FALSE]
        ELSE IF Len(path) > psize
        THEN [bytes |-> b1, head |-> h, endless |-> TRUE]
        ELSE [bytes |-> set_next(b1, base, path[Len(path)], n), head |-> h,
              endless |-> FALSE]

\* list_insert, lines 25-37: append the node, unlock
ListInsertLink(t) ==
    /\ lpc[t] = "link" /\ lcall[t].op = "list_insert" /\ pc[t] = "idle"
    /\ LET a == list_append(pool_bytes, memory_pool, pool_size, list_head,
                            new_node[t], lcall[t].data)
       IN  /\ list_head' = a.head
           /\ pool_bytes' = a.bytes
           /\ ListEnds(t, a.endless)
    /\ UNCHANGED <<lcall, new_node, temp, lret, l_before, mvars, iter>>

\* list_insert_after, lines 52-56: link the node behind prev_node
ListAfterLink(t) ==
    /\ lpc[t] = "link" /\ lcall[t].op = "list_insert_after" /\ pc[t] = "idle"
    /\ LET n == new_node[t]
           prev_node == lcall[t].node
           b1 == set_data(pool_bytes, memory_pool, n, lcall[t].data)
           b2 == set_next(b1, memory_pool, n, next_at(b1, memory_pool, prev_node))
       IN  pool_bytes' = set_next(b2, memory_pool, prev_node, n)
    /\ ListEnds(t, FALSE)
    /\ UNCHANGED <<list_head, lcall, new_node, temp, lret, l_before, mvars, iter>>

\* list_insert_before, lines 71-90, wrongly returning without the mem_free
\* of line 86 when no node points to next_node
ListBeforeLinkLeaking(t) ==
    /\ lpc[t] = "link" /\ lcall[t].op = "list_insert_before" /\ pc[t] = "idle"
    /\ LET n == new_node[t]
           next_node == lcall[t].node
           b1 == set_data(pool_bytes, memory_pool, n, lcall[t].data)
           path == Path(b1, list_head)
           k == First({i \in 1 .. Len(path) :
                         next_at(b1, memory_pool, path[i]) = next_node})
       IN  IF list_head = next_node
           THEN /\ pool_bytes' = set_next(b1, memory_pool, n, list_head)
                /\ list_head' = n
                /\ ListEnds(t, FALSE)
           ELSE IF k # 0
           THEN /\ pool_bytes' = set_next(set_next(b1, memory_pool, n, next_node),
                                          memory_pool, path[k], n)
                /\ ListEnds(t, FALSE)
                /\ UNCHANGED list_head
           ELSE IF Endless(path)
           THEN /\ pool_bytes' = b1
                /\ ListEnds(t, TRUE)
                /\ UNCHANGED list_head
           ELSE /\ pool_bytes' = b1
                /\ ListEnds(t, FALSE)
                /\ UNCHANGED list_head
    /\ UNCHANGED <<lcall, new_node, temp, lret, l_before, mvars, iter>>

\* list_insert_before, lines 71-90: link the node at the head or behind
\* the node whose next is next_node; with no such node, mem_free(new_node)
ListBeforeLink(t) ==
    /\ lpc[t] = "link" /\ lcall[t].op = "list_insert_before" /\ pc[t] = "idle"
    /\ LET n == new_node[t]
           next_node == lcall[t].node
           b1 == set_data(pool_bytes, memory_pool, n, lcall[t].data)
           path == Path(b1, list_head)
           k == First({i \in 1 .. Len(path) :
                         next_at(b1, memory_pool, path[i]) = next_node})
       IN  IF list_head = next_node
           THEN /\ pool_bytes' = set_next(b1, memory_pool, n, list_head)
                /\ list_head' = n
                /\ ListEnds(t, FALSE)
           ELSE IF k # 0
           THEN /\ pool_bytes' = set_next(set_next(b1, memory_pool, n, next_node),
                                          memory_pool, path[k], n)
                /\ ListEnds(t, FALSE)
                /\ UNCHANGED list_head
           ELSE IF Endless(path)
           THEN /\ pool_bytes' = b1
                /\ ListEnds(t, TRUE)
                /\ UNCHANGED list_head
           ELSE /\ pool_bytes' = b1
                /\ lpc' = [lpc EXCEPT ![t] = "free"]
                /\ UNCHANGED <<list_head, list_lock>>
    /\ UNCHANGED <<lcall, new_node, temp, lret, l_before, mvars, iter>>

\* list_delete, wrongly returning once the node is unlinked, without the
\* mem_free of line 120
ListDeleteLockLeaking(t) ==
    /\ lpc[t] = "lock" /\ lcall[t].op = "list_delete"
    /\ list_lock = 0
    /\ l_before' = [l_before EXCEPT ![t] = Snapshot]
    /\ LET path == Path(pool_bytes, list_head)
           k == First({i \in 1 .. Len(path) :
                         data_at(pool_bytes, memory_pool, path[i]) = lcall[t].data})
       IN  IF k = 0
           THEN /\ ListEnds(t, Endless(path))
                /\ UNCHANGED <<list_head, pool_bytes, temp>>
           ELSE /\ temp' = [temp EXCEPT ![t] = path[k]]
                /\ IF k = 1
                   THEN /\ list_head' = next_at(pool_bytes, memory_pool, path[k])
                        /\ UNCHANGED pool_bytes
                   ELSE /\ pool_bytes' =
                              set_next(pool_bytes, memory_pool, path[k - 1],
                                       next_at(pool_bytes, memory_pool, path[k]))
                        /\ UNCHANGED list_head
                /\ ListEnds(t, FALSE)
    /\ UNCHANGED <<lcall, new_node, lret, mvars, iter>>

\* list_delete, lines 95-118: lock, find the first node with the value and
\* unlink it; with no such node unlock and return
ListDeleteLock(t) ==
    /\ lpc[t] = "lock" /\ lcall[t].op = "list_delete"
    /\ list_lock = 0
    /\ l_before' = [l_before EXCEPT ![t] = Snapshot]
    /\ LET path == Path(pool_bytes, list_head)
           k == First({i \in 1 .. Len(path) :
                         data_at(pool_bytes, memory_pool, path[i]) = lcall[t].data})
       IN  IF k = 0
           THEN /\ ListEnds(t, Endless(path))
                /\ UNCHANGED <<list_head, pool_bytes, temp>>
           ELSE /\ temp' = [temp EXCEPT ![t] = path[k]]
                /\ IF k = 1
                   THEN /\ list_head' = next_at(pool_bytes, memory_pool, path[k])
                        /\ UNCHANGED pool_bytes
                   ELSE /\ pool_bytes' =
                              set_next(pool_bytes, memory_pool, path[k - 1],
                                       next_at(pool_bytes, memory_pool, path[k]))
                        /\ UNCHANGED list_head
                /\ list_lock' = t
                /\ lpc' = [lpc EXCEPT ![t] = "free"]
    /\ UNCHANGED <<lcall, new_node, lret, mvars, iter>>

\* lines 86, 120: mem_free(new_node), mem_free(temp), list_lock held
ListCallsFree(t) ==
    /\ lpc[t] = "free"
    /\ CallFree(t, IF lcall[t].op = "list_delete" THEN temp[t] ELSE new_node[t])

\* lines 90, 121: mem_free has returned; unlock and return
ListFreeGot(t) ==
    /\ lpc[t] = "free" /\ pc[t] = "done"
    /\ ListEnds(t, FALSE)
    /\ UNCHANGED <<list_head, lcall, new_node, temp, lret, l_before, mvars,
                   pool_bytes, iter>>

\* list_search, lines 126-138: lock, return the first node with the value
\* or NULL, unlock
ListSearchBody(t) ==
    /\ lpc[t] = "lock" /\ lcall[t].op = "list_search"
    /\ list_lock = 0
    /\ LET path == Path(pool_bytes, list_head)
           k == First({i \in 1 .. Len(path) :
                         data_at(pool_bytes, memory_pool, path[i]) = lcall[t].data})
       IN  /\ lret' = [lret EXCEPT ![t] = IF k = 0 THEN NULL ELSE path[k]]
           /\ ListEnds(t, k = 0 /\ Endless(path))
    /\ UNCHANGED <<list_head, lcall, new_node, temp, l_before, mvars,
                   pool_bytes, iter>>

\* list_count_nodes, lines 184-194: lock, count the nodes, unlock
ListCountBody(t) ==
    /\ lpc[t] = "lock" /\ lcall[t].op = "list_count_nodes"
    /\ list_lock = 0
    /\ LET path == Path(pool_bytes, list_head)
       IN  /\ lret' = [lret EXCEPT ![t] = Len(path)]
           /\ ListEnds(t, Endless(path))
    /\ UNCHANGED <<list_head, lcall, new_node, temp, l_before, mvars,
                   pool_bytes, iter>>

\* the list function has returned to the thread, which keeps the node that
\* list_search gave it
ListReturn(t) ==
    /\ lpc[t] = "ldone" /\ pc[t] = "idle"
    /\ lpc' = [lpc EXCEPT ![t] = "idle"]
    /\ lret' = [lret EXCEPT ![t] =
                   IF lcall[t].op = "list_search" THEN lret[t] ELSE NULL]
    /\ lcall' = [lcall EXCEPT ![t] = NoListCall]
    /\ new_node' = [new_node EXCEPT ![t] = NULL]
    /\ temp' = [temp EXCEPT ![t] = NULL]
    /\ l_before' = [l_before EXCEPT ![t] = <<>>]
    /\ iter' = [iter EXCEPT ![t] = @ + 1]
    /\ UNCHANGED <<list_head, list_lock, mvars, pool_bytes>>

\* the steps inside the list functions, for one thread
ListStep(t) ==
    \/ ListInsertLock(t)
    \/ ListCallsAlloc(t)
    \/ AllocBody(t)
    \/ ListAllocGot(t)
    \/ ListInsertLink(t)
    \/ ListAfterLink(t)
    \/ ListBeforeLink(t)
    \/ ListDeleteLock(t)
    \/ ListCallsFree(t)
    \/ FreeBody(t)
    \/ ListFreeGot(t)
    \/ ListSearchBody(t)
    \/ ListCountBody(t)
    \/ ListFrame(t)
    \/ ListReturn(t)

-----------------------------------------------------------------------------
(* SpecInsert: the threads of test_list_insert_multithread. The pool holds  *)
(* num_nodes nodes; every thread inserts its nodes_per_thread values, one   *)
(* after the other.                                                         *)

\* the state after list_init(&head, sizeof(Node) * num_nodes)
InitInsert ==
    \E per \in 1 .. Iterations, base \in Bases :
        /\ PoolReady(SizeofNode * NumThreads * per, base)
        /\ held = [t \in Threads |-> {}]

\* nodes_per_thread = num_nodes / num_threads, start_value = i * nodes_per_thread
nodes_per_thread == pool_size \div (SizeofNode * NumThreads)
start_value(t) == (t - 1) * nodes_per_thread

\* list_insert(data->head, data->start_value + i)
InsertLoop(t) ==
    /\ iter[t] < nodes_per_thread
    /\ ListCalls(t, "list_insert", NULL, start_value(t) + iter[t])

NextInsert ==
    \E t \in Threads :
        \/ InsertLoop(t)
        \/ ListInsertLock(t)
        \/ ListCallsAlloc(t)
        \/ AllocBody(t)
        \/ ListAllocGot(t)
        \/ ListFrame(t)
        \/ ListInsertLink(t)
        \/ ListReturn(t)

SpecInsert == InitInsert /\ [][NextInsert]_vars

-----------------------------------------------------------------------------
(* C32 *)

\* every thread has made all its calls and they have returned
InsertsDone == \A t \in Threads : lpc[t] = "idle" /\ iter[t] = nodes_per_thread

\* the values of the list, in list order
ValuesNow == [k \in 1 .. Len(ListNow) |-> ListNow[k].data]

\* the values thread t inserts, in the order of its calls
Inserted(t) == [i \in 1 .. nodes_per_thread |-> start_value(t) + i - 1]

\* C32: when the threads have made num_nodes calls of list_insert between
\* them on a list whose pool holds num_nodes nodes, no call has failed for
\* lack of memory, the list has num_nodes nodes, and the values of each
\* thread stand in it in the order the thread inserted them.
C32_NoLostInsert ==
    /\ \A t \in Threads :
          (lpc[t] = "ldone" /\ lcall[t].op = "list_insert") => new_node[t] # NULL
    /\ InsertsDone =>
          /\ Len(ListNow) = NumThreads * nodes_per_thread
          /\ \A t \in Threads :
                LET Mine(v) == \E i \in 1 .. nodes_per_thread : Inserted(t)[i] = v
                IN  SelectSeq(ValuesNow, Mine) = Inserted(t)

-----------------------------------------------------------------------------
(* SpecDelete: the threads of test_list_delete_multithreaded. The list has *)
(* been filled by list_insert calls made one after the other; the threads  *)
(* then delete its values, each thread its own.                            *)

\* list_insert(&head, data) run alone on the allocator state ls.st, the
\* buffer ls.bytes and the list at ls.head
SeqListInsert(ls, data) ==
    LET a == SeqAlloc(ls.st, SizeofNode)
        ap == list_append(ls.bytes, ls.st.base, ls.st.psize, ls.head, a.ret, data)
    IN  IF a.ret = NULL
        THEN [ls EXCEPT !.st = a.st]
        ELSE [st |-> a.st, bytes |-> ap.bytes, head |-> ap.head]

RECURSIVE AfterInserts(_, _)
AfterInserts(ls, values) ==
    IF values = <<>> THEN ls
    ELSE AfterInserts(SeqListInsert(ls, Head(values)), Tail(values))

\* the values 0 .. n-1 in the orders they can be inserted in
ValueOrders(n) ==
    {o \in [1 .. n -> 0 .. (n - 1)] : \A i, j \in 1 .. n : i # j => o[i] # o[j]}

\* the state after list_init(&head, sizeof(Node) * n) and n calls of
\* list_insert, as many as the descriptor table has room for
InitDelete ==
    \E n \in NumThreads .. MAX_SEGMENTS, base \in Bases :
      \E order \in ValueOrders(n) :
        LET ls == AfterInserts([st |-> SeqInit(SizeofNode * n, base),
                                bytes |-> FreshBytes(SizeofNode * n),
                                head |-> NULL], order)
        IN  /\ memory_pool = ls.st.base
            /\ pool_size = ls.st.psize
            /\ segments = ls.st.segs
            /\ segment_head = ls.st.head
            /\ segment_free_list = ls.st.fl
            /\ pool_bytes = ls.bytes
            /\ mem_lock = 0
            /\ IdleThreads
            /\ list_head = ls.head
            /\ ListThreadsIdle
            /\ start = ls.st
            /\ held = [t \in Threads |-> {}]

\* the values thread t deletes: no two threads delete the same value
Share(t) == {v \in 0 .. (MAX_SEGMENTS - 1) : v % NumThreads = t - 1}

\* list_delete(data->head, data_value), a value the thread has not deleted yet
DeleteLoop(t) ==
    \E v \in Share(t) :
        /\ \E k \in 1 .. Len(ListNow) : ListNow[k].data = v
        /\ ListCalls(t, "list_delete", NULL, v)

NextDelete ==
    \E t \in Threads :
        \/ DeleteLoop(t)
        \/ ListDeleteLock(t)
        \/ ListCallsFree(t)
        \/ FreeBody(t)
        \/ ListFreeGot(t)
        \/ ListFrame(t)
        \/ ListReturn(t)

SpecDelete == InitDelete /\ [][NextDelete]_vars

-----------------------------------------------------------------------------
(* C33 *)

\* the list without its node k
Without(list, k) ==
    [i \in 1 .. (Len(list) - 1) |-> IF i < k THEN list[i] ELSE list[i + 1]]

\* the places of the list that hold value v
Places(list, v) == {k \in 1 .. Len(list) : list[k].data = v}

\* thread t runs the critical section of list_delete in this step
DeleteSearched(t) ==
    lpc[t] = "lock" /\ lpc'[t] # "lock" /\ lcall[t].op = "list_delete"

\* the block at address p is free in ledger L
FreeAt(L, p) ==
    \E k \in 1 .. Len(L) :
        /\ L[k].free = 1
        /\ memory_pool + L[k].offset <= p
        /\ p < memory_pool + L[k].offset + L[k].size

\* the calls of list_delete that have returned are as many as the list had
\* nodes, and no call is running
DeletesDone ==
    /\ \A t \in Threads : lpc[t] = "idle"
    /\ SumOver(iter, Threads) = pool_size \div SizeofNode

\* C33: threads deleting pairwise distinct values that are in the list: each
\* list_delete unlinks exactly the node that holds its value and passes that
\* node to mem_free, which frees its block; when all values are deleted
\* the list is empty and the pool is one free block.
C33_ConcurrentDeletes ==
    /\ [][\A t \in Threads :
             DeleteSearched(t) =>
                \E k \in Places(ListNow, lcall[t].data) :
                   /\ ListNow' = Without(ListNow, k)
                   /\ temp'[t] = ListNow[k].node
                   /\ lpc'[t] = "free"]_vars
    /\ [][\A t \in Threads :
             (lpc[t] = "free" /\ pc[t] = "idle" /\ pc'[t] # "idle") =>
                call'[t] = [op |-> "mem_free", ptr |-> temp[t], size |-> 0]]_vars
    /\ [][\A t \in Threads :
             (lpc[t] = "free" /\ pc[t] = "free_lock" /\ pc'[t] = "done") =>
                /\ ~FreeAt(LedgerNow, temp[t])
                /\ FreeAt(LedgerNow', temp[t])]_vars
    /\ [](DeletesDone =>
             /\ Len(Path(pool_bytes, list_head)) = 0
             /\ LedgerNow = <<[offset |-> 0, size |-> pool_size, free |-> 1]>>)

\* three values have been deleted by the two threads, none is left
C33_Witness ==
    /\ pool_size = 3 * SizeofNode
    /\ DeletesDone
    /\ \A t \in Threads : iter[t] > 0

-----------------------------------------------------------------------------
(* SpecList: after list_init the threads call list_insert,                  *)
(* list_insert_after, list_insert_before, list_delete, list_search and      *)
(* list_count_nodes in any order and concurrently, at most MaxCalls calls   *)
(* per thread. A node argument is the head, the node the thread's last      *)
(* list_search returned (it may have been deleted since), or NULL.          *)

\* the state after list_init(&head, MaxCap)
InitList ==
    \E base \in Bases :
        /\ PoolReady(MaxCap, base)
        /\ held = [t \in Threads |-> {}]

\* the values stored in the nodes
Values == 0 .. 1

\* the nodes thread t can pass
Known(t) == {NULL, list_head, lret[t]}

NextList ==
    \E t \in Threads :
        \/ CanCall(t) /\ \E data \in Values : ListCalls(t, "list_insert", NULL, data)
        \/ CanCall(t) /\ \E node \in Known(t), data \in Values :
                            ListCalls(t, "list_insert_after", node, data)
        \/ CanCall(t) /\ \E node \in Known(t), data \in Values :
                            ListCalls(t, "list_insert_before", node, data)
        \/ CanCall(t) /\ \E data \in Values : ListCalls(t, "list_delete", NULL, data)
        \/ CanCall(t) /\ \E data \in Values : ListCalls(t, "list_search", NULL, data)
        \/ CanCall(t) /\ ListCalls(t, "list_count_nodes", NULL, 0)
        \/ ListStep(t)

SpecList == InitList /\ [][NextList]_vars

\* SpecList under fair scheduling: a thread that can take a step of its list
\* function takes it, and a thread waiting in pthread_mutex_lock gets the
\* lock if it is free again and again
FairList == SpecList /\ \A t \in Threads : SF_vars(ListStep(t))

-----------------------------------------------------------------------------
(* C39 *)

\* thread t is inside a list function that has not reached its return
ListRunning(t) == lpc[t] \notin {"idle", "ldone"}

\* thread t waits in pthread_mutex_lock for list_lock, which another holds
ListBlocked(t) == lpc[t] = "lock" /\ list_lock \notin {0, t}

\* C39: a thread takes mem_lock only inside mem_alloc or mem_free called
\* with list_lock held, never list_lock while it holds mem_lock, and a list
\* function that has returned has released list_lock; no state is a
\* deadlock, no loop over the list runs for ever, and under fair scheduling
\* every list function that was called returns.
C39_ListNoDeadlock ==
    /\ [](\A t \in Threads :
             /\ pc[t] \in LockStages => list_lock = t
             /\ lpc[t] = "lock" => mem_lock # t /\ list_lock # t
             /\ lpc[t] \in {"idle", "ldone"} => list_lock # t
             /\ lpc[t] # "spin")
    /\ [](\A t \in Threads :
             ListRunning(t) => \E u \in Threads : ENABLED ListStep(u))
    /\ [](list_lock # 0 => ENABLED ListStep(list_lock))
    /\ \A t \in Threads : ListRunning(t) ~> (lpc[t] = "ldone")

\* a thread waits for list_lock while the thread that holds it is inside
\* mem_free, about to take mem_lock; both have a call behind them
C39_Witness ==
    \E t, u \in Threads :
        /\ ListBlocked(t)
        /\ list_lock = u /\ pc[u] = "free_lock"
        /\ iter[t] > 0 /\ iter[u] > 0

-----------------------------------------------------------------------------
(* C40 *)

\* thread t returns from an insert in this step because mem_alloc gave it
\* no node (lines 19-23, 46-50, 65-69)
InsertRefused(t) ==
    /\ lpc[t] = "alloc" /\ lpc'[t] = "ldone"
    /\ lcall[t].op \in InsertOps

\* thread t returns from list_insert_before in this step having found no
\* node that points to next_node (lines 84-90)
BeforeNotFound(t) ==
    /\ lcall[t].op = "list_insert_before"
    /\ \/ lpc[t] = "free" /\ lpc'[t] = "ldone"
       \/ lpc[t] = "link" /\ lpc'[t] = "ldone" /\ list_head' = list_head
          /\ \A k \in 1 .. Len(ListNow) :
                next_at(pool_bytes, memory_pool, ListNow[k].node) # lcall[t].node

\* C40: an insert that gets no node from mem_alloc returns with the list as
\* it was when the call took list_lock; a list_insert_before whose next_node
\* no node of the list points to returns with the list and the ledger as
\* they were, the node it had allocated freed again.
C40_FailedInsertNoTrace ==
    [][\A t \in Threads :
          /\ InsertRefused(t) =>
                /\ new_node'[t] = NULL
                /\ ListNow' = l_before[t].list
          /\ BeforeNotFound(t) =>
                /\ ListNow' = l_before[t].list
                /\ LedgerNow' = l_before[t].ledger
                /\ FreeAt(LedgerNow', new_node[t])]_vars

\* a list_insert_before on a list that is not empty has freed the node it
\* had allocated and returns
C40_Witness ==
    \E t \in Threads :
        /\ lpc[t] = "ldone" /\ lcall[t].op = "list_insert_before"
        /\ pc[t] = "done" /\ call[t].op = "mem_free"
        /\ new_node[t] # NULL /\ call[t].ptr = new_node[t]
        /\ FreeAt(LedgerNow, new_node[t])
        /\ l_before[t].list # <<>>
        /\ ListNow = l_before[t].list

=============================================================================
